---- MODULE Spec2Model ----
(***************************************************************************)
(* SeeWee backend: the SQLite tables behind the entries and variants       *)
(* repositories, the request transaction of api/db.py, and the variant     *)
(* engine that resolves a variant into a Document.                         *)
(*                                                                         *)
(* Tables are sets of rows.  The two tables that are listed "ORDER BY      *)
(* updated_at DESC" (entries, variants) are kept as sequences in that      *)
(* order: a statement that writes updated_at = utcnow() moves the row to   *)
(* the front, a statement that does not write it leaves the row in place.  *)
(* The engine is created without PRAGMA foreign_keys, so SQLite neither    *)
(* checks the declared foreign keys nor runs their ON DELETE CASCADE.      *)
(***************************************************************************)
EXTENDS Integers, Sequences, FiniteSets, TLC

\* uuid4() values are modelled as 1, 2, ... in order of allocation; at most
\* this many entries and variants are ever created
MaxEntries == 2
MaxVariants == 1
\* at most this many entries when the entries carry every type and tag list
MaxEntriesWide == 1
\* most entry ids a layout input lists
MaxLayoutLen == 2
\* variants in the runs that delete one of two
MaxVariantsPair == 2
\* requests that are served at the same time
MaxSessions == 2

\* keys in the data dict of a normalized entry
MaxDataKeys == 2
\* characters of a text that is escaped
MaxTextLen == 3
\* items of a Document that is exported
MaxDocItems == 2

\* ids that uuid4() never returns (a client may still send them)
UnknownIds == {0}

------------------------------------------------------------------------------
\* Sequence helpers

Range(s) == {s[i] : i \in DOMAIN s}

SeqsUpTo(S, n) == UNION {[1..k -> S] : k \in 0..n}

NoDuplicates(s) == \A i, j \in DOMAIN s : i # j => s[i] # s[j]

RECURSIVE Concat(_)
Concat(ss) == IF ss = <<>> THEN <<>> ELSE Head(ss) \o Concat(Tail(ss))

------------------------------------------------------------------------------
\* SQLite's BINARY collation on the section names that occur, as ranks
SectionCollation ==
    << "awards", "certifications", "education", "experience", "interests",
       "languages", "project", "projects", "publications", "references",
       "skills", "talks", "teaching", "volunteering" >>

CollationRank(s) == CHOOSE i \in DOMAIN SectionCollation : SectionCollation[i] = s

------------------------------------------------------------------------------
\* core/models.py: the tables of a freshly migrated database

EmptyDb ==
    [ entries |-> <<>>,          \* rows [id, type, data_json, created_at], updated_at DESC
      entry_tags |-> {},         \* rows [entry_id, tag]
      variants |-> <<>>,         \* rows [id, name, rules_json], updated_at DESC
      variant_sections |-> {},   \* rows [variant_id, section, position]
      variant_items |-> {},      \* rows [variant_id, section, position, entry_id]
      profile |-> {} ]           \* rows [id, data_json]

\* The outcome of a repository call or of a handler: the session's view of
\* the tables after it, the exception it raised ("" when none) and its value.
Returned(d, v) == [db |-> d, exc |-> "", value |-> v]
Raised(d, e) == [db |-> d, exc |-> e, value |-> <<>>]

\* sqlite: a second row with the same primary key fails the flush
EntryTagsPkOk(tags) == NoDuplicates(tags)
VariantSectionsPkOk(sections) == NoDuplicates(sections)

\* enumerate(xs) as rows
Enumerate(xs, Row(_, _)) == {Row(i - 1, xs[i]) : i \in DOMAIN xs}

\* the ordering lost: ORDER BY position DESC
RECURSIVE OrderByPositionDesc(_)
OrderByPositionDesc(rows) ==
    IF rows = {} THEN <<>>
    ELSE LET r == CHOOSE r \in rows : \A q \in rows : r.position >= q.position
         IN <<r>> \o OrderByPositionDesc(rows \ {r})

\* ORDER BY position ASC
RECURSIVE OrderByPosition(_)
OrderByPosition(rows) ==
    IF rows = {} THEN <<>>
    ELSE LET r == CHOOSE r \in rows : \A q \in rows : r.position <= q.position
         IN <<r>> \o OrderByPosition(rows \ {r})

\* ORDER BY section, position
ItemBefore(r, q) ==
    \/ CollationRank(r.section) < CollationRank(q.section)
    \/ r.section = q.section /\ r.position <= q.position

RECURSIVE OrderBySectionPosition(_)
OrderBySectionPosition(rows) ==
    IF rows = {} THEN <<>>
    ELSE LET r == CHOOSE r \in rows : \A q \in rows : ItemBefore(r, q)
         IN <<r>> \o OrderBySectionPosition(rows \ {r})

------------------------------------------------------------------------------
\* core/repos/entries_repo.py

EntryExists(d, entry_id) == \E i \in DOMAIN d.entries : d.entries[i].id = entry_id

EntryRow(d, entry_id) ==
    d.entries[CHOOSE i \in DOMAIN d.entries : d.entries[i].id = entry_id]

EntryTagsOf(d, entry_id) == {r.tag : r \in {q \in d.entry_tags : q.entry_id = entry_id}}

EntryRecord(d, row) ==
    [id |-> row.id, type |-> row.type, data |-> row.data_json,
     tags |-> EntryTagsOf(d, row.id), created_at |-> row.created_at]

EntriesRepo_get(d, entry_id) ==
    IF EntryExists(d, entry_id)
    THEN Returned(d, EntryRecord(d, EntryRow(d, entry_id)))
    ELSE Raised(d, "NoResultFound")

EntriesRepo_list(d) == [i \in DOMAIN d.entries |-> EntryRecord(d, d.entries[i])]

EntriesRepo_create(d, entry_id, entry_type, data, tags) ==
    \* created_at = utcnow(): the clock is read as the rank of the creation
    LET row == [id |-> entry_id, type |-> entry_type, data_json |-> data,
                created_at |-> entry_id]
        added == [d EXCEPT !.entries = <<row>> \o @,
                           !.entry_tags = @ \cup {[entry_id |-> entry_id, tag |-> t] : t \in Range(tags)}]
    IN IF EntryTagsPkOk(tags)
       THEN EntriesRepo_get(added, entry_id)
       ELSE Raised(d, "IntegrityError")

\* the UPDATE of data_json lost: only the tags are written
EntriesRepo_update_tags_only(d, entry_id, data, tags) ==
    LET d2 == IF tags # <<>>
              THEN [d EXCEPT !.entry_tags =
                       {r \in @ : r.entry_id # entry_id}
                           \cup {[entry_id |-> entry_id, tag |-> t] : t \in Range(tags[1])}]
              ELSE d
    IN IF tags # <<>> /\ ~NoDuplicates(tags[1])
       THEN Raised(d, "IntegrityError")
       ELSE IF \E i \in DOMAIN d.entries : d.entries[i].id = entry_id
       THEN Returned(d2, <<>>)
       ELSE Raised(d2, "NoResultFound")

\* the "if tags is not None" test lost: the tags are deleted in any case
EntriesRepo_update_clears_tags(d, entry_id, data, tags) ==
    LET NotIt(r) == r.id # entry_id
        d1 == IF data # <<>> /\ EntryExists(d, entry_id)
              THEN [d EXCEPT !.entries =
                       <<[EntryRow(d, entry_id) EXCEPT !.data_json = data[1]]>> \o SelectSeq(@, NotIt)]
              ELSE d
        given == IF tags # <<>> THEN Range(tags[1]) ELSE {}
        d2 == [d1 EXCEPT !.entry_tags =
                 {r \in @ : r.entry_id # entry_id}
                     \cup {[entry_id |-> entry_id, tag |-> t] : t \in given}]
    IN IF tags # <<>> /\ ~EntryTagsPkOk(tags[1])
       THEN Raised(d1, "IntegrityError")
       ELSE EntriesRepo_get(d2, entry_id)

EntriesRepo_update(d, entry_id, data, tags) ==
    LET NotIt(r) == r.id # entry_id
        d1 == IF data # <<>> /\ EntryExists(d, entry_id)
              THEN [d EXCEPT !.entries =
                       <<[EntryRow(d, entry_id) EXCEPT !.data_json = data[1]]>> \o SelectSeq(@, NotIt)]
              ELSE d
        d2 == IF tags # <<>>
              THEN [d1 EXCEPT !.entry_tags =
                       {r \in @ : r.entry_id # entry_id}
                           \cup {[entry_id |-> entry_id, tag |-> t] : t \in Range(tags[1])}]
              ELSE d1
    IN IF tags # <<>> /\ ~EntryTagsPkOk(tags[1])
       THEN Raised(d1, "IntegrityError")
       ELSE EntriesRepo_get(d2, entry_id)

\* the WHERE clause lost: every entry is deleted
EntriesRepo_delete_all(d, entry_id) ==
    Returned([d EXCEPT !.entries = <<>>], <<>>)

EntriesRepo_delete(d, entry_id) ==
    LET NotIt(r) == r.id # entry_id
    IN Returned([d EXCEPT !.entries = SelectSeq(@, NotIt)], <<>>)

------------------------------------------------------------------------------
\* core/repos/variants_repo.py

VariantExists(d, variant_id) == \E i \in DOMAIN d.variants : d.variants[i].id = variant_id

VariantRow(d, variant_id) ==
    d.variants[CHOOSE i \in DOMAIN d.variants : d.variants[i].id = variant_id]

SectionRows(variant_id, sections) ==
    LET Row(idx, section) == [variant_id |-> variant_id, section |-> section, position |-> idx]
    IN Enumerate(sections, Row)

\* a layout dict is the sequence of its (key, value) pairs in key order
LayoutKeys(layout) == [i \in DOMAIN layout |-> layout[i].section]

ItemRows(variant_id, layout) ==
    UNION { LET Row(position, entry_id) ==
                    [variant_id |-> variant_id, section |-> layout[i].section,
                     position |-> position, entry_id |-> entry_id]
            IN Enumerate(layout[i].entry_ids, Row) : i \in DOMAIN layout }

\* None is <<>>; VariantLayout(sections) is the pair sequence
RECURSIVE GroupBySection(_)
GroupBySection(items) ==
    IF items = <<>> THEN <<>>
    ELSE LET section == Head(items).section
             Same(r) == r.section = section
             Other(r) == r.section # section
             mine == SelectSeq(items, Same)
         IN <<[section |-> section, entry_ids |-> [i \in DOMAIN mine |-> mine[i].entry_id]]>>
                \o GroupBySection(SelectSeq(items, Other))

_load_layout(d, variant_id) ==
    GroupBySection(OrderBySectionPosition({r \in d.variant_items : r.variant_id = variant_id}))

VariantsRepo_get(d, variant_id) ==
    IF VariantExists(d, variant_id)
    THEN LET v == VariantRow(d, variant_id)
             sections == OrderByPosition({r \in d.variant_sections : r.variant_id = variant_id})
         IN Returned(d, [id |-> v.id, name |-> v.name, rules |-> v.rules_json,
                         sections |-> [i \in DOMAIN sections |-> sections[i].section],
                         layout |-> _load_layout(d, variant_id)])
    ELSE Raised(d, "NoResultFound")

VariantsRepo_create(d, variant_id, name, rules, sections) ==
    LET row == [id |-> variant_id, name |-> name, rules_json |-> rules]
        added == [d EXCEPT !.variants = <<row>> \o @,
                           !.variant_sections = @ \cup SectionRows(variant_id, sections)]
    IN IF VariantSectionsPkOk(sections)
       THEN VariantsRepo_get(added, variant_id)
       ELSE Raised(d, "IntegrityError")

\* name, rules, sections: <<>> for None, <<x>> for a value
VariantsRepo_update(d, variant_id, name, rules, sections) ==
    LET NotIt(r) == r.id # variant_id
        d1 == IF (name # <<>> \/ rules # <<>>) /\ VariantExists(d, variant_id)
              THEN LET v == VariantRow(d, variant_id)
                       patched == [v EXCEPT
                                     !.name = IF name # <<>> THEN name[1] ELSE @,
                                     !.rules_json = IF rules # <<>> THEN rules[1] ELSE @]
                   IN [d EXCEPT !.variants = <<patched>> \o SelectSeq(@, NotIt)]
              ELSE d
        d2 == IF sections # <<>>
              THEN [d1 EXCEPT !.variant_sections =
                       {r \in @ : r.variant_id # variant_id} \cup SectionRows(variant_id, sections[1])]
              ELSE d1
    IN IF sections # <<>> /\ ~VariantSectionsPkOk(sections[1])
       THEN Raised(d1, "IntegrityError")
       ELSE VariantsRepo_get(d2, variant_id)

VariantsRepo_delete(d, variant_id) ==
    LET NotIt(r) == r.id # variant_id
    IN Returned([d EXCEPT !.variants = SelectSeq(@, NotIt)], <<>>)

\* UPDATE variants SET updated_at = utcnow() WHERE id = variant_id
TouchVariant(d, variant_id) ==
    LET NotIt(r) == r.id # variant_id
    IN IF VariantExists(d, variant_id)
       THEN [d EXCEPT !.variants = <<VariantRow(d, variant_id)>> \o SelectSeq(@, NotIt)]
       ELSE d

VariantsRepo_get_layout(d, variant_id) == _load_layout(d, variant_id)

VariantsRepo_set_layout(d, variant_id, layout) ==
    LET d1 == [d EXCEPT
                 !.variant_items = {r \in @ : r.variant_id # variant_id} \cup ItemRows(variant_id, layout),
                 !.variant_sections =
                     {r \in @ : r.variant_id # variant_id} \cup SectionRows(variant_id, LayoutKeys(layout))]
    IN Returned(TouchVariant(d1, variant_id), layout)

\* the DELETE of the variant_items rows lost
VariantsRepo_clear_layout_keeps_rows(d, variant_id) ==
    Returned(TouchVariant(d, variant_id), <<>>)

VariantsRepo_clear_layout(d, variant_id) ==
    Returned(TouchVariant([d EXCEPT !.variant_items = {r \in @ : r.variant_id # variant_id}],
                          variant_id), <<>>)

\* [self.get(v.id) for v in variants], updated_at DESC
VariantsRepo_list(d) ==
    [i \in DOMAIN d.variants |-> VariantsRepo_get(d, d.variants[i].id).value]

------------------------------------------------------------------------------
\* core/repos/tags_repo.py

\* sqlite's BINARY collation on the tags that occur, as ranks
TagCollation == << "a", "b" >>

TagRank(t) == CHOOSE i \in DOMAIN TagCollation : TagCollation[i] = t

\* ORDER BY tag ASC
RECURSIVE OrderByTag(_)
OrderByTag(tags) ==
    IF tags = {} THEN <<>>
    ELSE LET t == CHOOSE t \in tags : \A u \in tags : TagRank(t) <= TagRank(u)
         IN <<t>> \o OrderByTag(tags \ {t})

\* select(EntryTag.tag).distinct().order_by(EntryTag.tag.asc())
TagsRepo_list(d) == OrderByTag({r.tag : r \in d.entry_tags})

------------------------------------------------------------------------------
\* core/repos/profile_repo.py

ProfileRow(d) == CHOOSE r \in d.profile : r.id = 1

ProfileRepo_get(d) ==
    IF \E r \in d.profile : r.id = 1
    THEN Returned(d, [data |-> ProfileRow(d).data_json])
    ELSE LET added == [d EXCEPT !.profile = @ \cup {[id |-> 1, data_json |-> "{}"]}]
         IN Returned(added, [data |-> "{}"])

\* the else branch lost: an existing row keeps its data
ProfileRepo_put_insert_only(d, data) ==
    LET d1 == IF \E r \in d.profile : r.id = 1
              THEN d
              ELSE [d EXCEPT !.profile = @ \cup {[id |-> 1, data_json |-> data]}]
    IN ProfileRepo_get(d1)

ProfileRepo_put(d, data) ==
    LET d1 == IF \E r \in d.profile : r.id = 1
              THEN [d EXCEPT !.profile = (@ \ {ProfileRow(d)}) \cup {[id |-> 1, data_json |-> data]}]
              ELSE [d EXCEPT !.profile = @ \cup {[id |-> 1, data_json |-> data]}]
    IN ProfileRepo_get(d1)

------------------------------------------------------------------------------
\* core/variant_engine.py

\* section_id.replace("_", " ").title() on the section names that occur
SectionTitles ==
    << "Awards", "Certifications", "Education", "Experience", "Interests",
       "Languages", "Project", "Projects", "Publications", "References",
       "Skills", "Talks", "Teaching", "Volunteering" >>

_title_for_section(section_id) == SectionTitles[CollationRank(section_id)]

\* rules.get(key) or []
RulesGet(rules, key) == IF key \in DOMAIN rules THEN rules[key] ELSE <<>>

\* an included tag wins over an excluded one
_matches_rules_include_wins(tags, rules) ==
    LET include_tags == RulesGet(rules, "include_tags")
        exclude_tags == RulesGet(rules, "exclude_tags")
    IN IF include_tags # <<>>
       THEN tags \cap Range(include_tags) # {}
       ELSE exclude_tags # <<>> => tags \cap Range(exclude_tags) = {}

_matches_rules(tags, rules) ==
    LET include_tags == RulesGet(rules, "include_tags")
        exclude_tags == RulesGet(rules, "exclude_tags")
    IN /\ include_tags # <<>> => tags \cap Range(include_tags) # {}
       /\ exclude_tags # <<>> => tags \cap Range(exclude_tags) = {}

DocItem(e) == [entry_id |-> e.id, entry_type |-> e.type, data |-> e.data, tags |-> e.tags]

DocSection(section_id, items) ==
    [id |-> section_id, title |-> _title_for_section(section_id), items |-> items]

Document(variant_id, sections) == [variant_id |-> variant_id, sections |-> sections]

\* for eid in entry_ids: entry = entries_by_id.get(eid); if entry: items.append(...)
LayoutItems(entry_ids, all_entries) ==
    LET Found(eid) == {i \in DOMAIN all_entries : all_entries[i].id = eid}
        One(eid) == IF Found(eid) # {}
                    THEN <<DocItem(all_entries[CHOOSE i \in Found(eid) : TRUE])>>
                    ELSE <<>>
    IN Concat([k \in DOMAIN entry_ids |-> One(entry_ids[k])])

\* the "if entry:" test lost: a missing entry yields an item all the same
_build_from_layout_keep_missing(variant_id, layout_sections, all_entries) ==
    LET Item(eid) ==
            IF \E i \in DOMAIN all_entries : all_entries[i].id = eid
            THEN DocItem(all_entries[CHOOSE i \in DOMAIN all_entries : all_entries[i].id = eid])
            ELSE [entry_id |-> eid, entry_type |-> "", data |-> "", tags |-> {}]
    IN Document(variant_id,
                [k \in DOMAIN layout_sections |->
                    DocSection(layout_sections[k].section,
                               [i \in DOMAIN layout_sections[k].entry_ids |->
                                   Item(layout_sections[k].entry_ids[i])])])

_build_from_layout(variant_id, layout_sections, all_entries) ==
    Document(variant_id,
             [k \in DOMAIN layout_sections |->
                 DocSection(layout_sections[k].section,
                            LayoutItems(layout_sections[k].entry_ids, all_entries))])

section_to_entry_types ==
    [ experience |-> {"experience"},
      education |-> {"education"},
      projects |-> {"project", "projects"},
      publications |-> {"publication", "publications"},
      awards |-> {"award", "awards", "honor", "honors"},
      volunteering |-> {"volunteering", "volunteer"},
      skills |-> {"skill", "skills"},
      teaching |-> {"teaching"},
      certifications |-> {"certification", "certifications"},
      languages |-> {"language", "languages"},
      talks |-> {"talk", "talks"},
      interests |-> {"interest", "interests"},
      references |-> {"reference", "references"} ]

\* the alias table not consulted
AllowedTypesNoAliases(sid) == {sid}

\* section_to_entry_types.get(sid, {sid})
AllowedTypes(sid) ==
    IF sid \in DOMAIN section_to_entry_types THEN section_to_entry_types[sid] ELSE {sid}

\* the section the inner loop breaks at: the first sid whose types hold e.type
FirstSection(e, section_ids) ==
    LET hits == {k \in DOMAIN section_ids : e.type \in AllowedTypes(section_ids[k])}
    IN IF hits = {} THEN <<>>
       ELSE <<section_ids[CHOOSE k \in hits : \A j \in hits : k <= j]>>

\* the "break" lost: an entry goes to every section that accepts its type
_build_auto_grouped_no_break(variant_id, section_ids, all_entries, rules) ==
    LET by_section(sid) ==
            LET Mine(e) == /\ _matches_rules(e.tags, rules)
                           /\ e.type \in AllowedTypes(sid)
            IN LET picked == SelectSeq(all_entries, Mine)
               IN [i \in DOMAIN picked |-> DocItem(picked[i])]
    IN Document(variant_id,
                [k \in DOMAIN section_ids |-> DocSection(section_ids[k], by_section(section_ids[k]))])

_build_auto_grouped(variant_id, section_ids, all_entries, rules) ==
    LET by_section(sid) ==
            LET Mine(e) == /\ _matches_rules(e.tags, rules)
                           /\ FirstSection(e, section_ids) = <<sid>>
            IN LET picked == SelectSeq(all_entries, Mine)
               IN [i \in DOMAIN picked |-> DocItem(picked[i])]
    IN Document(variant_id,
                [k \in DOMAIN section_ids |-> DocSection(section_ids[k], by_section(section_ids[k]))])

\* the fallback list in another order
DefaultSectionIdsSorted ==
    << "awards", "certifications", "education", "experience", "interests",
       "languages", "projects", "publications", "references", "skills",
       "talks", "teaching", "volunteering" >>

\* the fallback list of build_variant_preview
DefaultSectionIds ==
    << "experience", "education", "projects", "publications", "awards",
       "volunteering", "skills", "teaching", "certifications", "languages",
       "talks", "interests", "references" >>

build_variant_preview(d, variant_id) ==
    LET got == VariantsRepo_get(d, variant_id)
        variant == got.value
        all_entries == EntriesRepo_list(d)
    IN IF got.exc # "" THEN got
       ELSE IF variant.layout # <<>>
       THEN Returned(d, _build_from_layout(variant_id, variant.layout, all_entries))
       ELSE LET section_ids == IF variant.sections # <<>> THEN variant.sections
                               ELSE DefaultSectionIds
            IN Returned(d, _build_auto_grouped(variant_id, section_ids, all_entries, variant.rules))

\* rebuilds the dataclasses from the dict of build_variant_preview, field by field
build_variant_document(d, variant_id) ==
    LET preview == build_variant_preview(d, variant_id)
        Item(i) == [entry_id |-> i.entry_id, entry_type |-> i.entry_type,
                    data |-> i.data, tags |-> i.tags]
        Section(s) == [id |-> s.id, title |-> s.title,
                       items |-> [k \in DOMAIN s.items |-> Item(s.items[k])]]
    IN IF preview.exc # "" THEN preview
       ELSE Returned(d, [variant_id |-> preview.value.variant_id,
                         sections |-> [k \in DOMAIN preview.value.sections |->
                                          Section(preview.value.sections[k])]])

------------------------------------------------------------------------------
\* core/entry_schemas.py

ENTRY_TYPES ==
    << "experience", "education", "project", "publication", "skill", "award",
       "volunteering", "certification", "talk", "language", "reference" >>

\* JSON values of an entry's data: null, a string, an integer, a list; the
\* tag t tells which
PyNone == [t |-> "none"]
PyString(s) == [t |-> "str", s |-> s]
PyInt(n) == [t |-> "int", n |-> n]
PyList(xs) == [t |-> "list", xs |-> xs]

\* data.get(key)
dict_get(data, key) == IF key \in DOMAIN data THEN data[key] ELSE PyNone

RECURSIVE PyRepr(_), PyReprItems(_)
\* repr(val): a string is quoted
PyRepr(val) ==
    CASE val.t = "none" -> "None"
      [] val.t = "str" -> "'" \o val.s \o "'"
      \* str(n) of a one-digit integer
      [] val.t = "int" ->
            << "0", "1", "2", "3", "4", "5", "6", "7", "8", "9" >>[val.n + 1]
      [] val.t = "list" -> "[" \o PyReprItems(val.xs) \o "]"

PyReprItems(xs) ==
    IF xs = <<>> THEN ""
    ELSE IF Len(xs) = 1 THEN PyRepr(xs[1])
    ELSE PyRepr(xs[1]) \o ", " \o PyReprItems(Tail(xs))

\* str(val)
PyStr(val) == IF val.t = "str" THEN val.s ELSE PyRepr(val)

\* bool(val)
PyTruthy(val) ==
    CASE val.t = "none" -> FALSE
      [] val.t = "str" -> val.s # ""
      [] val.t = "int" -> val.n # 0
      [] val.t = "list" -> val.xs # <<>>

\* s.strip() and s.split(","), on the strings of the model: of these only
\* " " and " y" carry outer whitespace and only "x, y" holds a comma
PyStrip(s) == CASE s = " " -> "" [] s = " y" -> "y" [] OTHER -> s

PySplitComma(s) == CASE s = "x, y" -> << "x", " y" >> [] OTHER -> << s >>

\* only the canonical key, the first of the list, is read
_get_str_canonical_only(data, keys) ==
    IF keys = <<>> THEN ""
    ELSE LET val == dict_get(data, Head(keys))
         IN  IF val # PyNone THEN PyStr(val) ELSE ""

\* the keys are tried in order; the first whose value is not None is
\* returned, through str() unless it is a string
RECURSIVE _get_str(_, _)
_get_str(data, keys) ==
    IF keys = <<>> THEN ""
    ELSE LET val == dict_get(data, Head(keys))
         IN  IF val # PyNone
             THEN (IF val.t # "str" THEN PyStr(val) ELSE val.s)
             ELSE _get_str(data, Tail(keys))

\* the first key holding a list or a non-blank string decides
RECURSIVE _get_list(_, _)
_get_list(data, keys) ==
    IF keys = <<>> THEN <<>>
    ELSE LET val == dict_get(data, Head(keys))
             \* [str(x) for x in val if x]
             truthy == SelectSeq(val.xs, LAMBDA x : PyTruthy(x))
             \* [v.strip() for v in val.split(",") if v.strip()]
             parts == SelectSeq(PySplitComma(val.s), LAMBDA v : PyStrip(v) # "")
         IN  IF val.t = "list" THEN [k \in DOMAIN truthy |-> PyStr(truthy[k])]
             ELSE IF val.t = "str" /\ PyStrip(val.s) # ""
                  THEN [k \in DOMAIN parts |-> PyStrip(parts[k])]
             ELSE _get_list(data, Tail(keys))

_build_dates(data) ==
    LET start == _get_str(data, << "start_date", "start", "from" >>)
        end == _get_str(data, << "end_date", "end", "to" >>)
    IN  IF start # "" /\ end # "" THEN start \o " - " \o end
        ELSE IF start # "" THEN start \o " - Present"
        ELSE IF end # "" THEN end
        ELSE _get_str(data, << "dates", "date", "year" >>)

\* the fields of the Schema classes: str fields and list[str] fields
SCHEMA_REGISTRY ==
    [ experience |->
        [ str |-> { "role", "company", "location", "start_date", "end_date", "lead" },
          list |-> { "highlights" } ],
      education |->
        [ str |-> { "school", "degree", "location", "start_date", "end_date",
                    "gpa", "honors" },
          list |-> { "highlights" } ],
      project |->
        [ str |-> { "name", "organization", "link", "start_date", "end_date" },
          list |-> { "tech_stack", "highlights" } ],
      publication |->
        [ str |-> { "title", "authors", "venue", "year", "doi", "link" },
          list |-> { "highlights" } ],
      skill |->
        [ str |-> { "category", "name", "level" },
          list |-> { "skill_list" } ],
      award |->
        [ str |-> { "title", "issuer", "date", "description" },
          list |-> { "highlights" } ],
      volunteering |->
        [ str |-> { "role", "organization", "location", "start_date", "end_date",
                    "link" },
          list |-> { "highlights" } ],
      certification |->
        [ str |-> { "name", "issuer", "date", "expiry", "credential_id", "link" },
          list |-> {} ],
      talk |->
        [ str |-> { "title", "event", "location", "date", "link" },
          list |-> { "highlights" } ],
      language |->
        [ str |-> { "name", "proficiency" },
          list |-> {} ],
      reference |->
        [ str |-> { "name", "title", "organization", "email", "phone",
                    "relationship" },
          list |-> {} ] ]

\* the normalizer of each type: the keys it hands to _get_str for each
\* string field (str), to _get_list for each list field (list), and whether
\* it adds "_dates": _build_dates(data)
NORMALIZERS ==
    [ experience |->
        [ str |-> [ role |-> << "role", "title", "position", "header" >>,
                    company |-> << "company", "org", "organization", "employer" >>,
                    location |-> << "location", "place" >>,
                    start_date |-> << "start_date", "start", "from" >>,
                    end_date |-> << "end_date", "end", "to" >>,
                    lead |-> << "lead", "leadership", "secondary_title" >> ],
          list |-> [ highlights |-> << "highlights", "bullets", "description" >> ],
          dates |-> TRUE ],
      education |->
        [ str |-> [ school |-> << "school", "institution", "university", "org",
                                  "organization", "subheader" >>,
                    degree |-> << "degree", "title", "program", "header" >>,
                    location |-> << "location", "place" >>,
                    start_date |-> << "start_date", "start", "from" >>,
                    end_date |-> << "end_date", "end", "to" >>,
                    gpa |-> << "gpa", "grade", "score" >>,
                    honors |-> << "honors", "distinction", "notes" >> ],
          list |-> [ highlights |-> << "highlights", "bullets" >> ],
          dates |-> TRUE ],
      project |->
        [ str |-> [ name |-> << "name", "title", "project_name", "header" >>,
                    organization |-> << "organization", "org", "company",
                                        "affiliation" >>,
                    link |-> << "link", "url", "repo", "github" >>,
                    start_date |-> << "start_date", "start" >>,
                    end_date |-> << "end_date", "end" >> ],
          list |-> [ tech_stack |-> << "tech_stack", "technologies", "stack", "tech" >>,
                     highlights |-> << "highlights", "bullets", "description" >> ],
          dates |-> TRUE ],
      publication |->
        [ str |-> [ title |-> << "title", "name", "header" >>,
                    authors |-> << "authors", "author", "by" >>,
                    venue |-> << "venue", "journal", "conference", "publication",
                                 "subheader" >>,
                    year |-> << "year", "date", "published" >>,
                    doi |-> << "doi" >>,
                    link |-> << "link", "url" >> ],
          list |-> [ highlights |-> << "highlights", "notes" >> ],
          dates |-> FALSE ],
      skill |->
        [ str |-> [ category |-> << "category", "group", "header", "title" >>,
                    name |-> << "name", "skill" >>,
                    level |-> << "level", "proficiency" >> ],
          list |-> [ skill_list |-> << "skill_list", "items", "skills", "list",
                                       "bullets" >> ],
          dates |-> FALSE ],
      award |->
        [ str |-> [ title |-> << "title", "name", "award", "header" >>,
                    issuer |-> << "issuer", "organization", "org", "from", "grantor" >>,
                    date |-> << "date", "year", "received" >>,
                    description |-> << "description", "details", "notes" >> ],
          list |-> [ highlights |-> << "highlights", "bullets" >> ],
          dates |-> FALSE ],
      volunteering |->
        [ str |-> [ role |-> << "role", "title", "position", "header" >>,
                    organization |-> << "organization", "org", "company",
                                        "subheader" >>,
                    location |-> << "location", "place" >>,
                    start_date |-> << "start_date", "start" >>,
                    end_date |-> << "end_date", "end" >>,
                    link |-> << "link", "url" >> ],
          list |-> [ highlights |-> << "highlights", "bullets", "description" >> ],
          dates |-> TRUE ],
      certification |->
        [ str |-> [ name |-> << "name", "title", "certification", "header" >>,
                    issuer |-> << "issuer", "organization", "org", "from" >>,
                    date |-> << "date", "issued", "received" >>,
                    expiry |-> << "expiry", "expires", "valid_until" >>,
                    credential_id |-> << "credential_id", "id", "credential" >>,
                    link |-> << "link", "url", "verify" >> ],
          list |-> <<>>,
          dates |-> FALSE ],
      talk |->
        [ str |-> [ title |-> << "title", "name", "talk", "header" >>,
                    event |-> << "event", "conference", "venue", "subheader" >>,
                    location |-> << "location", "place" >>,
                    date |-> << "date", "year", "presented" >>,
                    link |-> << "link", "url", "slides" >> ],
          list |-> [ highlights |-> << "highlights", "notes" >> ],
          dates |-> FALSE ],
      language |->
        [ str |-> [ name |-> << "name", "language", "lang", "header" >>,
                    proficiency |-> << "proficiency", "level", "fluency" >> ],
          list |-> <<>>,
          dates |-> FALSE ],
      reference |->
        [ str |-> [ name |-> << "name", "full_name", "header" >>,
                    title |-> << "title", "position", "role" >>,
                    organization |-> << "organization", "org", "company" >>,
                    email |-> << "email", "contact_email" >>,
                    phone |-> << "phone", "contact_phone" >>,
                    relationship |-> << "relationship", "relation" >> ],
          list |-> <<>>,
          dates |-> FALSE ] ]

\* a type with a normalizer: the dict its normalizer returns, one _get_str or
\* _get_list per field and _dates where the normalizer computes it.
\* any other type: the fallback dict { "title": ..., "organization": ...,
\* "dates": ..., "highlights": ..., **data }, where a key of data replaces the
\* computed key of the same name; it holds raw values of the data next to
\* computed ones, so its values carry the tag of their kind
normalize_entry(entry_type, data) ==
    IF entry_type \in DOMAIN NORMALIZERS
    THEN LET keys == NORMALIZERS[entry_type]
             strs == [f \in DOMAIN keys.str |-> _get_str(data, keys.str[f])]
             lists == [f \in DOMAIN keys.list |-> _get_list(data, keys.list[f])]
         IN  IF keys.dates
             THEN strs @@ lists @@ [_dates |-> _build_dates(data)]
             ELSE strs @@ lists
    ELSE LET highlights == _get_list(data, << "highlights", "bullets" >>)
         IN  data @@
             [ title |-> PyString(_get_str(data, << "title", "name", "header" >>)),
               organization |->
                  PyString(_get_str(data, << "organization", "org", "company",
                                             "subheader" >>)),
               dates |-> PyString(_build_dates(data)),
               highlights |->
                  PyList([k \in DOMAIN highlights |-> PyString(highlights[k])]) ]

------------------------------------------------------------------------------
\* core/exporters/latex_exporter.py, core/markdown_utils.py,
\* core/exporters/linkedin_exporter.py.  A text is the sequence of its
\* characters; in an escaped text a run of letters such as textbackslash,
\* which no escaper touches, is one element.

\* "".join(mapping.get(ch, ch) for ch in s)
_tex_escape(s) ==
    LET mapping ==
            ("\\" :> << "\\", "textbackslash", "{", "}" >>)
         @@ ("&" :> << "\\", "&" >>)
         @@ ("%" :> << "\\", "%" >>)
         @@ ("$" :> << "\\", "$" >>)
         @@ ("#" :> << "\\", "#" >>)
         @@ ("_" :> << "\\", "_" >>)
         @@ ("{" :> << "\\", "{" >>)
         @@ ("}" :> << "\\", "}" >>)
         @@ ("~" :> << "\\", "textasciitilde", "{", "}" >>)
         @@ ("^" :> << "\\", "textasciicircum", "{", "}" >>)
    IN  Concat([i \in DOMAIN s |->
                  IF s[i] \in DOMAIN mapping THEN mapping[s[i]] ELSE << s[i] >>])

\* for old, new in replacements: text = text.replace(old, new)
_escape_latex(text) ==
    LET replacements ==
            << << "\\", << "\\", "textbackslash", "{", "}" >> >>,
               << "{", << "\\", "{" >> >>,
               << "}", << "\\", "}" >> >>,
               << "$", << "\\", "$" >> >>,
               << "#", << "\\", "#" >> >>,
               << "%", << "\\", "%" >> >>,
               << "&", << "\\", "&" >> >>,
               << "_", << "\\", "_" >> >>,
               << "~", << "\\", "textasciitilde", "{", "}" >> >>,
               << "^", << "\\", "textasciicircum", "{", "}" >> >> >>
        RECURSIVE ReplaceFrom(_, _)
        ReplaceFrom(t, k) ==
            IF k > Len(replacements) THEN t
            ELSE ReplaceFrom(Concat([i \in DOMAIN t |->
                                       IF t[i] = replacements[k][1]
                                       THEN replacements[k][2] ELSE << t[i] >>]),
                             k + 1)
    IN  IF text = <<>> THEN <<>> ELSE ReplaceFrom(text, 1)

\* the first of the keys whose value is not None, blank or not
RECURSIVE _field_keeps_blank(_, _)
_field_keeps_blank(data, keys) ==
    IF keys = <<>> THEN ""
    ELSE LET v == dict_get(data, Head(keys))
         IN  IF v # PyNone THEN PyStr(v) ELSE _field_keeps_blank(data, Tail(keys))

\* the first of the keys whose value is not None and not blank, stripped;
\* _as_str(v) of a value that is not None is str(v)
RECURSIVE _field(_, _)
_field(data, keys) ==
    IF keys = <<>> THEN ""
    ELSE LET v == dict_get(data, Head(keys))
         IN  IF v # PyNone /\ PyStrip(PyStr(v)) # ""
             THEN PyStrip(PyStr(v))
             ELSE _field(data, Tail(keys))

\* the rows of linkedin_experience.csv and of mapping.json, one dict per
\* item of the Document
render_linkedin_bundle(doc) ==
    LET \* md_to_plain on the strings of the model: only "**x**" has markup
        md_to_plain(s) == IF s = "**x**" THEN "x" ELSE s
        AsStr(v) == IF v = PyNone THEN "" ELSE PyStr(v)
        RECURSIVE Join(_, _, _)
        Join(sep, prefix, xs) ==
            IF xs = <<>> THEN ""
            ELSE IF Len(xs) = 1 THEN prefix \o xs[1]
            ELSE prefix \o xs[1] \o sep \o Join(sep, prefix, Tail(xs))
        _join_bullets(item) ==
            LET highlights == dict_get(item.data, "highlights")
                kept == IF highlights.t = "list"
                        THEN SelectSeq(highlights.xs, LAMBDA x : PyStrip(AsStr(x)) # "")
                        ELSE <<>>
            IN  Join("\n", "- ", [k \in DOMAIN kept |-> PyStrip(md_to_plain(AsStr(kept[k])))])
        Row(item) ==
            LET title == _field(item.data, << "title", "role", "position", "name" >>)
            IN  [ entry_type |-> item.entry_type,
                  title |-> IF title # "" THEN title ELSE item.entry_type,
                  company |-> _field(item.data, << "company", "org", "organization" >>),
                  location |-> _field(item.data, << "location" >>),
                  start_date |-> _field(item.data, << "start_date", "start" >>),
                  end_date |-> _field(item.data, << "end_date", "end" >>),
                  description |-> _join_bullets(item),
                  tags |-> Join(",", "", item.tags) ]
    IN  Concat([s \in DOMAIN doc.sections |->
                  [i \in DOMAIN doc.sections[s].items |-> Row(doc.sections[s].items[i])]])

------------------------------------------------------------------------------
\* api/routers/entries.py, api/routers/variants.py: the handlers, as functions
\* of the session's view d of the tables.  Optional payload fields are <<>>
\* for None and <<x>> for a value.

\* try: ... except NoResultFound: raise HTTPException(status_code=404, ...)
NotFoundTo404(out) ==
    IF out.exc = "NoResultFound" THEN Raised(out.db, "HTTPException") ELSE out

\* the status FastAPI answers with
StatusOf(exc) ==
    IF exc = "" THEN "200"
    ELSE IF exc = "HTTPException" THEN "404"
    ELSE IF exc = "RequestValidationError" THEN "422"
    ELSE "500"

create_entry(d, entry_id, type, data, tags) ==
    EntriesRepo_create(d, entry_id, type, data, tags)

update_entry(d, entry_id, data, tags) ==
    NotFoundTo404(EntriesRepo_update(d, entry_id, data, tags))

delete_entry(d, entry_id) ==
    LET out == EntriesRepo_delete(d, entry_id)
    IN Returned(out.db, [status |-> "ok"])

\* VariantCreateIn: name has min_length=1; a payload that fails validation
\* is answered 422 and the handler does not run
create_variant(d, variant_id, name, rules, sections) ==
    IF name = ""
    THEN Raised(d, "RequestValidationError")
    ELSE VariantsRepo_create(d, variant_id, name, rules, sections)

update_variant(d, variant_id, name, rules, sections) ==
    NotFoundTo404(VariantsRepo_update(d, variant_id, name, rules, sections))

delete_variant(d, variant_id) ==
    LET out == VariantsRepo_delete(d, variant_id)
    IN Returned(out.db, [status |-> "ok"])

preview_variant(d, variant_id) ==
    NotFoundTo404(build_variant_preview(d, variant_id))

\* the zip holds the rendering of doc; the model keeps doc itself
export_variant_html(d, variant_id) ==
    NotFoundTo404(build_variant_document(d, variant_id))

set_variant_layout(d, variant_id, sections) ==
    LET got == VariantsRepo_get(d, variant_id)
    IN IF got.exc # "" THEN NotFoundTo404(got)
       ELSE VariantsRepo_set_layout(d, variant_id, sections)

clear_variant_layout(d, variant_id) ==
    LET got == VariantsRepo_get(d, variant_id)
    IN IF got.exc # "" THEN NotFoundTo404(got)
       ELSE Returned(VariantsRepo_clear_layout(d, variant_id).db, [status |-> "ok"])

\* _to_out of api/routers/variants.py
VariantOut(v) ==
    [id |-> v.id, name |-> v.name, rules |-> v.rules, sections |-> v.sections,
     has_layout |-> v.layout # <<>>]

get_entry(d, entry_id) == NotFoundTo404(EntriesRepo_get(d, entry_id))

list_entries(d) == Returned(d, EntriesRepo_list(d))

get_variant(d, variant_id) ==
    LET got == VariantsRepo_get(d, variant_id)
    IN IF got.exc # "" THEN NotFoundTo404(got) ELSE Returned(d, VariantOut(got.value))

list_variants(d) ==
    LET vs == VariantsRepo_list(d)
    IN Returned(d, [i \in DOMAIN vs |-> VariantOut(vs[i])])

get_variant_layout(d, variant_id) ==
    LET got == VariantsRepo_get(d, variant_id)
    IN IF got.exc # "" THEN NotFoundTo404(got)
       ELSE Returned(d, [variant_id |-> variant_id, sections |-> VariantsRepo_get_layout(d, variant_id)])

\* the zip holds main.tex rendered from doc and the profile; the model keeps both
export_variant_latex(d, variant_id) ==
    LET built == NotFoundTo404(build_variant_document(d, variant_id))
    IN IF built.exc # "" THEN built
       ELSE LET profile == ProfileRepo_get(d)
            IN Returned(profile.db, [doc |-> built.value, profile |-> profile.value.data])

list_tags(d) == Returned(d, TagsRepo_list(d))

get_profile(d) == ProfileRepo_get(d)

put_profile(d, data) == ProfileRepo_put(d, data)

------------------------------------------------------------------------------
\* api/db.py: the request transaction.  committed is the database file before
\* the request, out the handler's outcome on its session.  wrote records
\* whether the session's view differed from the file when the handler ended.
\* the except branch lost: the session is committed however the handler ended
db_session_always_commit(committed, out) ==
    [db |-> out.db,
     txn |-> [end |-> IF out.exc = "" THEN "commit" ELSE "rollback",
              wrote |-> out.db # committed, closed |-> TRUE]]

db_session(committed, out) ==
    IF out.exc = ""
    THEN [db |-> out.db,
          txn |-> [end |-> "commit", wrote |-> out.db # committed, closed |-> TRUE]]
    ELSE [db |-> committed,
          txn |-> [end |-> "rollback", wrote |-> out.db # committed, closed |-> TRUE]]

------------------------------------------------------------------------------
\* State

VARIABLES
    db,      \* the committed contents of the database file
    issued,  \* how many uuid4 ids the committed entries and variants have used
    txn,     \* the session of the last request: how it ended
    resp,    \* the last request and its response
    hist,    \* history of the accepted requests: what the clients last wrote
    sess,    \* the requests served statement by statement, and the file's write lock
    norm     \* an entry's type and data, and its normalized data once computed

vars == <<db, issued, txn, resp, hist, sess, norm>>

Sessions == 1..MaxSessions

\* a session that serves no request
ClosedSession ==
    [pc |-> "closed", entry_id |-> 0, data |-> "", tags |-> <<>>, pending |-> <<>>, exc |-> ""]

VariantIds == 1..(IF MaxVariantsPair > MaxVariants THEN MaxVariantsPair ELSE MaxVariants)
EntryIds == 1..(IF MaxEntries > MaxEntriesWide THEN MaxEntries ELSE MaxEntriesWide)

EntryIdInputs == (1..issued.entries) \cup UnknownIds
VariantIdInputs == (1..issued.variants) \cup UnknownIds

Optional(S) == {<<>>} \cup {<<x>> : x \in S}

NoRules == [k \in {} |-> <<>>]

\* The values the requests carry: entries and variants that may be created,
\* and whether the state keeps the payload of an entry request (payloads).
\* The values of the payload fields:  payload.tags and payload.sections are
\* lists, so they may repeat an element.  layout_ids: whether a layout may
\* name the ids of entries ("issued") or only ids no entry has ("unknown").
Inputs ==
    [ entries |-> MaxEntriesWide,
      variants |-> MaxVariants,
      payloads |-> FALSE,
      types |-> {"experience", "project"},
      data |-> {"d1", "d2"},
      tags |-> {<<"a">>, <<"a", "b">>, <<"a", "a">>},
      names |-> {"cv"},
      rules |-> { NoRules,
                  [include_tags |-> <<>>, exclude_tags |-> <<"b">>],
                  [include_tags |-> <<"a">>, exclude_tags |-> <<"b">>],
                  [include_tags |-> <<"b">>] },
      sections |-> { <<>>, <<"experience">>, <<"project", "projects">>,
                     <<"projects", "project">>, <<"experience", "experience">> },
      layout_keys |-> { <<"projects">> },
      layout_ids |-> "unknown" ]

\* The same requests with the variety moved to the layouts: every entry carries
\* the tag the rules exclude and a type no declared section accepts.
LayoutInputs ==
    [ entries |-> MaxEntries,
      variants |-> MaxVariants,
      payloads |-> FALSE,
      types |-> {"project"},
      data |-> {"d1"},
      tags |-> {<<"b">>},
      names |-> {"cv"},
      rules |-> { [exclude_tags |-> <<"b">>] },
      sections |-> { <<"experience">> },
      layout_keys |-> { <<"experience">>, <<"projects", "experience">> },
      layout_ids |-> "issued" ]

\* The same requests with the variety moved to the declared sections and the
\* entry types, for two entries.
GroupInputs ==
    [ entries |-> MaxEntries,
      variants |-> MaxVariants,
      payloads |-> FALSE,
      types |-> {"experience", "project"},
      data |-> {"d1"},
      tags |-> {<<>>},
      names |-> {"cv"},
      rules |-> { NoRules },
      sections |-> { <<>>, <<"experience">>, <<"project", "projects">>,
                     <<"projects", "project">>, <<"projects", "experience">> },
      layout_keys |-> { <<"projects">> },
      layout_ids |-> "unknown" ]

Sum(f) ==
    LET RECURSIVE Upto(_)
        Upto(n) == IF n = 0 THEN 0 ELSE Len(f[n]) + Upto(n - 1)
    IN Upto(Len(f))

\* the layout dicts a client can send: a key order, and for every key a list
\* of entry ids, at most MaxLayoutLen ids in all
Layouts(P) ==
    LET ids == IF P.layout_ids = "issued" THEN EntryIdInputs ELSE UnknownIds
    IN UNION { { [i \in DOMAIN keys |-> [section |-> keys[i], entry_ids |-> lists[i]]] :
                   lists \in {l \in [DOMAIN keys -> SeqsUpTo(ids, MaxLayoutLen)] :
                                Sum(l) <= MaxLayoutLen} } :
               keys \in P.layout_keys }

\* VariantUpdateIn payloads: no field, or one field
VariantUpdates(P) ==
    { u \in [name : Optional(P.names), rules : Optional(P.rules), sections : Optional(P.sections)] :
        Cardinality({f \in {"name", "rules", "sections"} : u[f] # <<>>}) <= 1 }

\* the empty database of a fresh install, no request served yet
InitTables ==
    /\ db = EmptyDb
    /\ issued = [entries |-> 0, variants |-> 0]
    /\ txn = [end |-> "commit", wrote |-> FALSE, closed |-> TRUE]
    /\ resp = [op |-> "", id |-> 0, req |-> <<>>, status |-> "200", body |-> <<>>]
    /\ hist = [ \* <<layout>> of the last set_layout, <<>> once cleared
                layout |-> [v \in VariantIds |-> <<>>],
                \* <<sections>> of the last create or update that gave sections
                declared |-> [v \in VariantIds |-> <<>>],
                \* the same, a set_layout counting with the keys of its layout
                ordered |-> [v \in VariantIds |-> <<>>],
                \* <<[data, tags]>> last written to an entry, <<>> once deleted
                entries |-> [e \in EntryIds |-> <<>>],
                \* <<data>> of the last put of the profile
                profile |-> <<>> ]
    /\ sess = [lock |-> 0, s |-> [p \in Sessions |-> ClosedSession]]

Init ==
    /\ InitTables
    /\ norm = <<>>

\* one request: the handler runs on a session opened on the committed
\* database, then db_session commits or rolls back and closes
\* req is the payload of the request where a claim needs it, else <<>>
ServeReq(op, id, req, out) ==
    LET done == db_session(db, out)
    IN /\ db' = done.db
       /\ txn' = done.txn
       /\ resp' = [op |-> op, id |-> id, req |-> req,
                   status |-> StatusOf(out.exc), body |-> out.value]
       /\ UNCHANGED <<sess, norm>>

Serve(op, id, out) == ServeReq(op, id, <<>>, out)

CreateEntry(P) ==
    /\ issued.entries < P.entries
    /\ \E type \in P.types, data \in P.data, tags \in P.tags :
         LET entry_id == issued.entries + 1
             out == create_entry(db, entry_id, type, data, tags)
             req == IF P.payloads THEN [type |-> type, data |-> data, tags |-> tags] ELSE <<>>
         IN /\ ServeReq("create_entry", entry_id, req, out)
            /\ issued' = IF out.exc = "" THEN [issued EXCEPT !.entries = entry_id] ELSE issued
            /\ hist' = IF out.exc = ""
                       THEN [hist EXCEPT !.entries[entry_id] =
                                <<[data |-> data, tags |-> Range(tags)]>>]
                       ELSE hist

UpdateEntry(P) ==
    /\ \E entry_id \in EntryIdInputs, data \in Optional(P.data), tags \in Optional(P.tags) :
         LET out == update_entry(db, entry_id, data, tags)
             old == hist.entries[entry_id][1]
             req == IF P.payloads THEN [data |-> data, tags |-> tags] ELSE <<>>
         IN /\ ServeReq("update_entry", entry_id, req, out)
            /\ hist' = IF out.exc = ""
                       THEN [hist EXCEPT !.entries[entry_id] =
                                <<[data |-> IF data # <<>> THEN data[1] ELSE old.data,
                                   tags |-> IF tags # <<>> THEN Range(tags[1]) ELSE old.tags]>>]
                       ELSE hist
    /\ UNCHANGED issued

DeleteEntry ==
    /\ \E entry_id \in EntryIdInputs :
         /\ Serve("delete_entry", entry_id, delete_entry(db, entry_id))
         /\ hist' = IF entry_id \in EntryIds THEN [hist EXCEPT !.entries[entry_id] = <<>>] ELSE hist
    /\ UNCHANGED issued

CreateVariant(P) ==
    /\ issued.variants < P.variants
    /\ \E name \in P.names, rules \in P.rules, sections \in P.sections :
         LET variant_id == issued.variants + 1
             out == create_variant(db, variant_id, name, rules, sections)
         IN /\ Serve("create_variant", variant_id, out)
            /\ issued' = IF out.exc = "" THEN [issued EXCEPT !.variants = variant_id] ELSE issued
            /\ hist' = IF out.exc = ""
                       THEN [hist EXCEPT !.declared[variant_id] = <<sections>>,
                                         !.ordered[variant_id] = <<sections>>]
                       ELSE hist

UpdateVariant(P) ==
    /\ \E variant_id \in VariantIdInputs, u \in VariantUpdates(P) :
         LET out == update_variant(db, variant_id, u.name, u.rules, u.sections)
         IN /\ Serve("update_variant", variant_id, out)
            /\ hist' = IF out.exc = "" /\ u.sections # <<>>
                       THEN [hist EXCEPT !.declared[variant_id] = u.sections,
                                         !.ordered[variant_id] = u.sections]
                       ELSE hist
    /\ UNCHANGED issued

DeleteVariant ==
    /\ \E variant_id \in VariantIdInputs :
         Serve("delete_variant", variant_id, delete_variant(db, variant_id))
    /\ UNCHANGED <<issued, hist>>

PreviewVariant ==
    /\ \E variant_id \in VariantIdInputs :
         Serve("preview_variant", variant_id, preview_variant(db, variant_id))
    /\ UNCHANGED <<issued, hist>>

ExportVariantHtml ==
    /\ \E variant_id \in VariantIdInputs :
         Serve("export_variant_html", variant_id, export_variant_html(db, variant_id))
    /\ UNCHANGED <<issued, hist>>

SetVariantLayout(P) ==
    /\ \E variant_id \in VariantIdInputs, sections \in Layouts(P) :
         LET out == set_variant_layout(db, variant_id, sections)
         IN /\ Serve("set_variant_layout", variant_id, out)
            /\ hist' = IF out.exc = ""
                       THEN [hist EXCEPT !.layout[variant_id] = <<sections>>,
                                         !.ordered[variant_id] = <<LayoutKeys(sections)>>]
                       ELSE hist
    /\ UNCHANGED issued

ClearVariantLayout ==
    /\ \E variant_id \in VariantIdInputs :
         LET out == clear_variant_layout(db, variant_id)
         IN /\ Serve("clear_variant_layout", variant_id, out)
            /\ hist' = IF out.exc = "" THEN [hist EXCEPT !.layout[variant_id] = <<>>] ELSE hist
    /\ UNCHANGED issued

GetEntry ==
    /\ \E entry_id \in EntryIdInputs : Serve("get_entry", entry_id, get_entry(db, entry_id))
    /\ UNCHANGED <<issued, hist>>

ListEntries ==
    /\ Serve("list_entries", 0, list_entries(db))
    /\ UNCHANGED <<issued, hist>>

GetVariant ==
    /\ \E variant_id \in VariantIdInputs :
         Serve("get_variant", variant_id, get_variant(db, variant_id))
    /\ UNCHANGED <<issued, hist>>

ListVariants ==
    /\ Serve("list_variants", 0, list_variants(db))
    /\ UNCHANGED <<issued, hist>>

GetVariantLayout ==
    /\ \E variant_id \in VariantIdInputs :
         Serve("get_variant_layout", variant_id, get_variant_layout(db, variant_id))
    /\ UNCHANGED <<issued, hist>>

ListTags ==
    /\ Serve("list_tags", 0, list_tags(db))
    /\ UNCHANGED <<issued, hist>>

ExportVariantLatex ==
    /\ \E variant_id \in VariantIdInputs :
         Serve("export_variant_latex", variant_id, export_variant_latex(db, variant_id))
    /\ UNCHANGED <<issued, hist>>

GetProfile ==
    /\ Serve("get_profile", 0, get_profile(db))
    /\ UNCHANGED <<issued, hist>>

PutProfile(P) ==
    /\ \E data \in P.profiles :
         /\ Serve("put_profile", 0, put_profile(db, data))
         /\ hist' = [hist EXCEPT !.profile = <<data>>]
    /\ UNCHANGED issued

Requests(P) ==
    \/ CreateEntry(P)
    \/ UpdateEntry(P)
    \/ DeleteEntry
    \/ CreateVariant(P)
    \/ UpdateVariant(P)
    \/ DeleteVariant
    \/ PreviewVariant
    \/ ExportVariantHtml
    \/ SetVariantLayout(P)
    \/ ClearVariantLayout

Next == Requests(Inputs)

Spec == Init /\ [][Next]_vars

NextLayout == Requests(LayoutInputs)

SpecLayout == Init /\ [][NextLayout]_vars

NextGroup == Requests(GroupInputs)

SpecGroup == Init /\ [][NextGroup]_vars

\* The requests on the variants with their reads, on one entry: an id no
\* variant has, a sections list that repeats a section, layouts.
ApiInputs ==
    [ entries |-> MaxEntriesWide,
      variants |-> MaxVariants,
      payloads |-> FALSE,
      types |-> {"experience", "project"},
      data |-> {"d1"},
      tags |-> {<<"b">>},
      names |-> {"cv"},
      rules |-> { NoRules, [exclude_tags |-> <<"b">>] },
      sections |-> { <<"projects">>, <<"experience", "experience">> },
      layout_keys |-> { <<"experience">>, <<"projects", "experience">> },
      layout_ids |-> "issued" ]

NextApi ==
    \/ Requests(ApiInputs)
    \/ GetVariant
    \/ ListVariants
    \/ GetVariantLayout

SpecApi == Init /\ [][NextApi]_vars

\* The requests of the entries and tags routers on two entries, payloads
\* kept: a type outside ENTRY_TYPES, tag lists that repeat a tag.
EntryInputs ==
    [ entries |-> MaxEntries,
      variants |-> MaxVariants,
      payloads |-> TRUE,
      types |-> {"experience", "projects"},
      data |-> {"d1", "d2"},
      tags |-> {<<>>, <<"a">>, <<"b", "a">>, <<"a", "a">>},
      names |-> {"cv"},
      rules |-> { NoRules },
      sections |-> { <<>> },
      layout_keys |-> { <<"projects">> },
      layout_ids |-> "unknown" ]

NextEntries ==
    \/ CreateEntry(EntryInputs)
    \/ UpdateEntry(EntryInputs)
    \/ DeleteEntry
    \/ GetEntry
    \/ ListEntries
    \/ ListTags

SpecEntries == Init /\ [][NextEntries]_vars

\* Two entries and two variants that differ by their ids alone, with the
\* deletes and the reads.
PairInputs ==
    [ entries |-> MaxEntries,
      variants |-> MaxVariantsPair,
      payloads |-> FALSE,
      types |-> {"experience"},
      data |-> {"d1"},
      tags |-> {<<"a">>},
      names |-> {"cv", ""},
      rules |-> { NoRules },
      sections |-> { <<"experience">> },
      layout_keys |-> { <<"experience">> },
      layout_ids |-> "issued" ]

NextPair ==
    \/ CreateEntry(PairInputs)
    \/ UpdateEntry(PairInputs)
    \/ DeleteEntry
    \/ CreateVariant(PairInputs)
    \/ UpdateVariant(PairInputs)
    \/ DeleteVariant
    \/ GetEntry
    \/ ListEntries
    \/ GetVariant
    \/ ListVariants

SpecPair == Init /\ [][NextPair]_vars

\* Two requests PUT /entries/{id} served at the same time, each on its own
\* session, statement by statement.  sessionmaker(autocommit=False): a
\* session's statements stay in its transaction until db_session commits.
\* every statement is committed as it is executed
autocommit_each_statement == TRUE

autocommit == FALSE

\* the statements of EntriesRepo.update, and the INSERT and the UPDATE of the
\* profile row, on the tables d
ApplyStatement(d, stmt) ==
    IF stmt.kind = "insert_profile"
    THEN [d EXCEPT !.profile = @ \cup {[id |-> 1, data_json |-> stmt.data]}]
    ELSE IF stmt.kind = "update_profile"
    THEN [d EXCEPT !.profile = {IF r.id = 1 THEN [r EXCEPT !.data_json = stmt.data] ELSE r :
                                   r \in @}]
    ELSE IF stmt.kind = "update_data"
    THEN LET NotIt(r) == r.id # stmt.entry_id
         IN IF EntryExists(d, stmt.entry_id)
            THEN [d EXCEPT !.entries =
                    <<[EntryRow(d, stmt.entry_id) EXCEPT !.data_json = stmt.data]>>
                        \o SelectSeq(@, NotIt)]
            ELSE d
    ELSE IF stmt.kind = "delete_tags"
    THEN [d EXCEPT !.entry_tags = {r \in @ : r.entry_id # stmt.entry_id}]
    ELSE [d EXCEPT !.entry_tags =
            @ \cup {[entry_id |-> stmt.entry_id, tag |-> t] : t \in stmt.tags}]

RECURSIVE ApplyAll(_, _)
ApplyAll(d, stmts) ==
    IF stmts = <<>> THEN d ELSE ApplyAll(ApplyStatement(d, Head(stmts)), Tail(stmts))

\* what session p reads: the file and the statements of its own transaction
SessionView(p) == ApplyAll(db, sess.s[p].pending)

\* sqlite: one connection at a time holds the write lock of the file, from its
\* first write statement to the end of its transaction
CanWrite(p) == sess.lock \in {0, p}

\* session p executes a write statement and goes on at pc
Execute(p, stmt, pc) ==
    /\ CanWrite(p)
    /\ IF autocommit
       THEN /\ db' = ApplyStatement(db, stmt)
            /\ sess' = [sess EXCEPT !.s[p].pc = pc]
       ELSE /\ db' = db
            /\ sess' = [sess EXCEPT !.lock = p, !.s[p].pc = pc,
                                    !.s[p].pending = Append(@, stmt)]
    /\ UNCHANGED <<issued, txn, resp, hist, norm>>

\* a request PUT /entries/{entry_id} with data and tags arrives
OpenSession(P) ==
    \E p \in Sessions, entry_id \in EntryIdInputs, data \in P.data, tags \in P.tags :
        /\ sess.s[p].pc = "closed"
        /\ sess' = [sess EXCEPT !.s[p] = [pc |-> "update", entry_id |-> entry_id, data |-> data,
                                          tags |-> tags, pending |-> <<>>, exc |-> ""]]
        /\ UNCHANGED <<db, issued, txn, resp, hist, norm>>

\* update(Entry).where(Entry.id == entry_id).values(data_json=..., updated_at=...)
ExecuteUpdate ==
    \E p \in Sessions :
        /\ sess.s[p].pc = "update"
        /\ Execute(p, [kind |-> "update_data", entry_id |-> sess.s[p].entry_id,
                       data |-> sess.s[p].data], "delete")

\* delete(EntryTag).where(EntryTag.entry_id == entry_id)
ExecuteDelete ==
    \E p \in Sessions :
        /\ sess.s[p].pc = "delete"
        /\ Execute(p, [kind |-> "delete_tags", entry_id |-> sess.s[p].entry_id], "flush")

\* flush(): the INSERTs of the added EntryTag rows; a tag given twice fails
\* the primary key
FlushTags ==
    \E p \in Sessions :
        /\ sess.s[p].pc = "flush"
        /\ IF EntryTagsPkOk(sess.s[p].tags)
           THEN Execute(p, [kind |-> "insert_tags", entry_id |-> sess.s[p].entry_id,
                            tags |-> Range(sess.s[p].tags)], "get")
           ELSE /\ CanWrite(p)
                /\ sess' = [sess EXCEPT !.s[p].pc = "end", !.s[p].exc = "IntegrityError"]
                /\ UNCHANGED <<db, issued, txn, resp, hist, norm>>

\* return self.get(entry_id), NoResultFound turned into the 404
GetUpdated ==
    \E p \in Sessions :
        /\ sess.s[p].pc = "get"
        /\ sess' = [sess EXCEPT !.s[p].pc = "end",
                                !.s[p].exc = NotFoundTo404(
                                    EntriesRepo_get(SessionView(p), sess.s[p].entry_id)).exc]
        /\ UNCHANGED <<db, issued, txn, resp, hist, norm>>

\* sqlite3 gives up waiting for the write lock: OperationalError, database is locked
LockTimeout ==
    \E p \in Sessions :
        /\ sess.s[p].pc \in {"update", "delete", "flush"}
        /\ ~CanWrite(p)
        /\ sess' = [sess EXCEPT !.s[p].pc = "end", !.s[p].exc = "OperationalError"]
        /\ UNCHANGED <<db, issued, txn, resp, hist, norm>>

\* db_session after the handler: commit or rollback, then close
EndSession ==
    \E p \in Sessions :
        LET me == sess.s[p]
            view == SessionView(p)
            out == IF me.exc = ""
                   THEN Returned(view, EntriesRepo_get(view, me.entry_id).value)
                   ELSE Raised(view, me.exc)
            done == db_session(db, out)
        IN /\ me.pc = "end"
           /\ db' = done.db
           /\ txn' = done.txn
           /\ resp' = [op |-> "update_entry", id |-> me.entry_id, req |-> <<>>,
                       status |-> StatusOf(me.exc), body |-> out.value]
           /\ sess' = [sess EXCEPT !.lock = IF @ = p THEN 0 ELSE @,
                                   !.s[p].pc = "closed", !.s[p].pending = <<>>]
           /\ hist' = IF me.exc = ""
                      THEN [hist EXCEPT !.entries[me.entry_id] =
                               <<[data |-> me.data, tags |-> Range(me.tags)]>>]
                      ELSE hist
           /\ UNCHANGED <<issued, norm>>

ConcurrentInputs ==
    [ entries |-> MaxEntriesWide,
      variants |-> MaxVariants,
      payloads |-> FALSE,
      types |-> {"experience"},
      data |-> {"d1", "d2"},
      tags |-> {<<"a">>, <<"b">>, <<"a", "a">>},
      names |-> {"cv"},
      rules |-> { NoRules },
      sections |-> { <<>> },
      layout_keys |-> { <<"projects">> },
      layout_ids |-> "unknown" ]

\* a request that is served in one step runs while no session holds the lock
CreateEntryAlone == sess.lock = 0 /\ CreateEntry(ConcurrentInputs)

NextConcurrent ==
    \/ CreateEntryAlone
    \/ OpenSession(ConcurrentInputs)
    \/ ExecuteUpdate
    \/ ExecuteDelete
    \/ FlushTags
    \/ GetUpdated
    \/ LockTimeout
    \/ EndSession

SpecConcurrent == Init /\ [][NextConcurrent]_vars

\* The profile router, with the export that reads the profile, next to a few
\* requests on one entry and one variant.
ProfileInputs ==
    [ entries |-> MaxEntriesWide,
      variants |-> MaxVariants,
      payloads |-> FALSE,
      types |-> {"experience"},
      data |-> {"d1"},
      tags |-> {<<>>},
      names |-> {"cv"},
      rules |-> { NoRules },
      sections |-> { <<>> },
      layout_keys |-> { <<"projects">> },
      layout_ids |-> "unknown",
      profiles |-> {"{}", "p1", "p2"} ]

NextProfile ==
    \/ Requests(ProfileInputs)
    \/ GetProfile
    \/ PutProfile(ProfileInputs)
    \/ ExportVariantLatex

SpecProfile == Init /\ [][NextProfile]_vars

\* Requests GET /profile and PUT /profile served at the same time, each on
\* its own session: ProfileRepo.get and ProfileRepo.put statement by statement.

\* a request on the profile arrives; op is its handler, data its payload
OpenProfileSession(P) ==
    \E p \in Sessions, op \in {"get_profile", "put_profile"}, data \in P.profiles :
        /\ sess.s[p].pc = "closed"
        /\ op = "get_profile" => data = "{}"
        /\ sess' = [sess EXCEPT !.s[p] =
                      [pc |-> "select", entry_id |-> 0, data |-> data, tags |-> <<>>,
                       pending |-> <<>>, exc |-> "", op |-> op, found |-> FALSE]]
        /\ UNCHANGED <<db, issued, txn, resp, hist, norm>>

\* select(Profile).where(Profile.id == 1): get returns the row it finds;
\* else the session adds a row (row is None) or changes the one it found
SelectProfile ==
    \E p \in Sessions :
        LET found == \E r \in SessionView(p).profile : r.id = 1
        IN  /\ sess.s[p].pc = "select"
            /\ sess' = [sess EXCEPT
                          !.s[p].found = found,
                          !.s[p].pc = IF found /\ sess.s[p].op = "get_profile"
                                      THEN "end" ELSE "flush"]
            /\ UNCHANGED <<db, issued, txn, resp, hist, norm>>

\* flush(): the INSERT of the added row, which fails the primary key when the
\* file has a row with id 1 by now, or the UPDATE of the row found
FlushProfile ==
    \E p \in Sessions :
        /\ sess.s[p].pc = "flush"
        /\ IF ~sess.s[p].found /\ (\E r \in db.profile : r.id = 1)
           THEN /\ CanWrite(p)
                /\ sess' = [sess EXCEPT !.s[p].pc = "end", !.s[p].exc = "IntegrityError"]
                /\ UNCHANGED <<db, issued, txn, resp, hist, norm>>
           ELSE Execute(p, [kind |-> IF sess.s[p].found THEN "update_profile"
                                     ELSE "insert_profile",
                            data |-> sess.s[p].data], "end")

\* the handler returns the row its session sees, or raises; db_session
\* commits or rolls back, then closes
EndProfileSession ==
    \E p \in Sessions :
        LET me == sess.s[p]
            view == SessionView(p)
            out == IF me.exc = ""
                   THEN Returned(view, [data |-> ProfileRow(view).data_json])
                   ELSE Raised(view, me.exc)
            done == db_session(db, out)
        IN /\ me.pc = "end"
           /\ "op" \in DOMAIN me
           /\ db' = done.db
           /\ txn' = done.txn
           /\ resp' = [op |-> me.op, id |-> 0, req |-> <<>>,
                       status |-> StatusOf(me.exc), body |-> out.value]
           /\ sess' = [sess EXCEPT !.lock = IF @ = p THEN 0 ELSE @,
                                   !.s[p].pc = "closed", !.s[p].pending = <<>>]
           /\ hist' = IF me.exc = "" /\ me.op = "put_profile"
                      THEN [hist EXCEPT !.profile = <<me.data>>]
                      ELSE hist
           /\ UNCHANGED <<issued, norm>>

NextProfileConcurrent ==
    \/ OpenProfileSession(ProfileInputs)
    \/ SelectProfile
    \/ FlushProfile
    \/ LockTimeout
    \/ EndProfileSession

SpecProfileConcurrent == Init /\ [][NextProfileConcurrent]_vars

------------------------------------------------------------------------------
\* core/entry_schemas.py: normalize_entry applied to the data of an entry,
\* as the exporters do for each item of a Document.  norm holds the type and
\* the data of the entry and, once normalized, <<the dict returned>>.

\* the keys the normalizer of a type reads; for a type without a normalizer
\* the keys the fallback reads and one key, note, that it does not read
DataKeys(entry_type) ==
    IF entry_type \in DOMAIN NORMALIZERS
    THEN LET keys == NORMALIZERS[entry_type]
         IN  UNION { Range(keys.str[f]) : f \in DOMAIN keys.str }
               \cup UNION { Range(keys.list[f]) : f \in DOMAIN keys.list }
               \cup (IF keys.dates
                     THEN { "start_date", "start", "from", "end_date", "end", "to",
                            "dates", "date", "year" }
                     ELSE {})
    ELSE { "title", "name", "header", "organization", "org", "company",
           "subheader", "start_date", "start", "from", "end_date", "end", "to",
           "dates", "date", "year", "highlights", "bullets", "note" }

\* the subsets of K of at most n elements
RECURSIVE SubsetsUpTo(_, _)
SubsetsUpTo(K, n) ==
    IF n = 0 THEN { {} }
    ELSE LET smaller == SubsetsUpTo(K, n - 1)
         IN  smaller \cup { S \cup {k} : S \in smaller, k \in K }

\* the dicts of at most MaxDataKeys of the keys the normalizer reads, each
\* holding null, a string, an integer or a list
DataDicts(entry_type) ==
    LET values == { PyNone, PyString(""), PyString("x"), PyString("y"),
                    PyString("x, y"), PyInt(7),
                    PyList(<< PyString("x"), PyString("") >>) }
    IN  UNION { [S -> values] : S \in SubsetsUpTo(DataKeys(entry_type), MaxDataKeys) }

InitNorm ==
    /\ InitTables
    /\ \E entry_type \in Range(ENTRY_TYPES) \cup { "custom" } :
         \E data \in DataDicts(entry_type) :
            norm = [type |-> entry_type, data |-> data, out |-> <<>>]

NormalizeEntry ==
    /\ norm.out = <<>>
    /\ norm' = [norm EXCEPT !.out = << normalize_entry(norm.type, norm.data) >>]
    /\ UNCHANGED <<db, issued, txn, resp, hist, sess>>

SpecNorm == InitNorm /\ [][NormalizeEntry]_vars

------------------------------------------------------------------------------
\* The exporters' functions applied to a text or to a Document.  norm holds
\* the function, its input and, once applied, <<what it returned>>.

InitExport ==
    /\ InitTables
    /\ \/ \E text \in SeqsUpTo({ "\\", "{", "}", "$", "#", "%", "&", "_", "~", "^",
                                 "a" }, MaxTextLen) :
             norm = [fn |-> "escape", text |-> text, out |-> <<>>]
       \/ LET \* the data of an item: at most MaxDataKeys keys
              values(key) ==
                 CASE key = "title" -> { PyNone, PyString(" "), PyString("x") }
                   [] key = "name" -> { PyString(" "), PyString("y") }
                   [] key = "company" -> { PyString("x") }
                   [] key = "highlights" ->
                        { PyString("x"),
                          PyList(<< PyString("**x**"), PyString(" "), PyInt(7) >>) }
              dicts ==
                 UNION { { d \in [S -> UNION { values(k) : k \in S }] :
                             \A k \in S : d[k] \in values(k) } :
                         S \in SubsetsUpTo({ "title", "name", "company", "highlights" },
                                           MaxDataKeys) }
              items ==
                 { [entry_id |-> 0, entry_type |-> entry_type, data |-> data,
                    tags |-> tags] :
                     entry_type \in { "experience", "skill" }, data \in dicts,
                     tags \in { <<>>, << "a", "b" >> } }
              \* at most two sections with at most MaxDocItems items in all
              lists ==
                 { <<>> } \cup { << a >> : a \in SeqsUpTo(items, MaxDocItems) }
                    \cup UNION { { << a, b >> :
                                     b \in SeqsUpTo(items, MaxDocItems - Len(a)) } :
                                 a \in SeqsUpTo(items, MaxDocItems) }
          IN  \E l \in lists :
                 norm = [fn |-> "linkedin",
                         doc |-> Document(0, [s \in DOMAIN l |->
                                                 DocSection("experience", l[s])]),
                         out |-> <<>>]

\* the filter tex_escape of the LaTeX template and the text of the
\* markdown-to-LaTeX renderer, on the same text
TexEscape ==
    /\ norm.fn = "escape" /\ norm.out = <<>>
    /\ norm' = [norm EXCEPT !.out = << [ tex |-> _tex_escape(norm.text),
                                         md |-> _escape_latex(norm.text) ] >>]
    /\ UNCHANGED <<db, issued, txn, resp, hist, sess>>

RenderLinkedin ==
    /\ norm.fn = "linkedin" /\ norm.out = <<>>
    /\ norm' = [norm EXCEPT !.out = << render_linkedin_bundle(norm.doc) >>]
    /\ UNCHANGED <<db, issued, txn, resp, hist, sess>>

NextExport == TexEscape \/ RenderLinkedin

SpecExport == InitExport /\ [][NextExport]_vars

------------------------------------------------------------------------------
\* What the claims speak about.  A preview or export request does not change
\* the tables, so in the state after it db is what the Document was built from.

IsDocResponse ==
    resp.op \in {"preview_variant", "export_variant_html"} /\ resp.status = "200"

SectionIdsOf(doc) == [k \in DOMAIN doc.sections |-> doc.sections[k].id]
ItemIdsOf(section) == [i \in DOMAIN section.items |-> section.items[i].entry_id]

\* the places (section, item) of the Document that hold entry e
PlacesOf(doc, e) ==
    {p \in UNION {{<<k, i>> : i \in DOMAIN doc.sections[k].items} : k \in DOMAIN doc.sections} :
        doc.sections[p[1]].items[p[2]].entry_id = e}

\* the variant has layout rows / declared section rows
HasLayoutRows(v) == \E r \in db.variant_items : r.variant_id = v
HasSectionRows(v) == \E r \in db.variant_sections : r.variant_id = v

ExistingIds == {db.entries[i].id : i \in DOMAIN db.entries}
ExistingOnly(ids) == LET Exists(e) == e \in ExistingIds IN SelectSeq(ids, Exists)

\* the tag filter as it is specified
PassesTagFilter(tags, rules) ==
    LET include == IF "include_tags" \in DOMAIN rules THEN Range(rules.include_tags) ELSE {}
        exclude == IF "exclude_tags" \in DOMAIN rules THEN Range(rules.exclude_tags) ELSE {}
    IN (include = {} \/ tags \cap include # {}) /\ tags \cap exclude = {}

\* C1: after set_layout(v, L) with a non-empty L the Document has exactly one
\* section per section id of L, each holding the entries L lists for it (those
\* that exist), whatever the rules and the declared sections are.
C1_LayoutAlone ==
    (IsDocResponse /\ hist.layout[resp.id] # <<>> /\ hist.layout[resp.id][1] # <<>>) =>
        LET L == hist.layout[resp.id][1]
            doc == resp.body
        IN /\ Len(doc.sections) = Len(L)
           /\ \A k \in DOMAIN L :
                \E j \in DOMAIN doc.sections :
                    /\ doc.sections[j].id = L[k].section
                    /\ ItemIdsOf(doc.sections[j]) = ExistingOnly(L[k].entry_ids)

\* C2: after set_layout(v, L) the section ids of the Document are the keys of L
\* in the order of L.  Stated for the layouts that give every section at least
\* one entry id.
C2_LayoutKeyOrder ==
    (/\ IsDocResponse
     /\ hist.layout[resp.id] # <<>>
     /\ hist.layout[resp.id][1] # <<>>
     /\ \A k \in DOMAIN hist.layout[resp.id][1] : hist.layout[resp.id][1][k].entry_ids # <<>>) =>
        SectionIdsOf(resp.body) = LayoutKeys(hist.layout[resp.id][1])

\* C3: in layout mode every section of the Document holds exactly the entry
\* ids the layout lists for it whose entry exists now, in the layout's order,
\* each with the entry's current record; and a preview or export of an
\* existing variant answers 200 whatever entries were deleted.
C3_DanglingSkipped ==
    /\ (IsDocResponse /\ HasLayoutRows(resp.id)) =>
          LET L == hist.layout[resp.id][1]
              doc == resp.body
          IN \A j \in DOMAIN doc.sections :
                /\ \E k \in DOMAIN L : L[k].section = doc.sections[j].id
                /\ \A k \in DOMAIN L :
                      L[k].section = doc.sections[j].id =>
                          ItemIdsOf(doc.sections[j]) = ExistingOnly(L[k].entry_ids)
                /\ \A i \in DOMAIN doc.sections[j].items :
                      doc.sections[j].items[i].entry_id \in ExistingIds
    /\ resp.op \in {"preview_variant", "export_variant_html"} =>
          (resp.status = "200" <=> VariantExists(db, resp.id))

\* a Document of a layout that lists a deleted entry next to an existing one
C3_Witness ==
    /\ IsDocResponse /\ HasLayoutRows(resp.id)
    /\ \E j \in DOMAIN resp.body.sections, k \in DOMAIN hist.layout[resp.id][1] :
          LET listed == hist.layout[resp.id][1][k].entry_ids
          IN /\ hist.layout[resp.id][1][k].section = resp.body.sections[j].id
             /\ Len(listed) = 2
             /\ listed[1] \in (1..issued.entries) \ ExistingIds
             /\ listed[2] \in ExistingIds
             /\ ItemIdsOf(resp.body.sections[j]) = <<listed[2]>>

\* the Document is auto-grouped: the variant has no layout rows
IsAutoResponse == IsDocResponse /\ ~HasLayoutRows(resp.id)

\* C4: without a layout no entry id occurs more than once in the Document, and
\* an entry that is placed sits in the first section, in the Document's order,
\* whose accepted types hold the entry's type.
C4_AtMostOneSection ==
    IsAutoResponse =>
        LET doc == resp.body
        IN /\ \A e \in ExistingIds : Cardinality(PlacesOf(doc, e)) <= 1
           /\ \A k \in DOMAIN doc.sections :
                \A i \in DOMAIN doc.sections[k].items :
                    LET type == doc.sections[k].items[i].entry_type
                    IN /\ type \in AllowedTypes(doc.sections[k].id)
                       /\ \A j \in 1..(k - 1) : type \notin AllowedTypes(doc.sections[j].id)

\* an entry sits in the first of two sections that both accept its type
C4_Witness ==
    /\ IsAutoResponse
    /\ Len(resp.body.sections) = 2
    /\ resp.body.sections[1].items # <<>>
    /\ resp.body.sections[1].items[1].entry_type \in AllowedTypes(resp.body.sections[2].id)
    /\ resp.body.sections[2].items = <<>>

\* C5: without a layout every entry shown passes the tag filter (no include
\* tags, or one of them on the entry; and no exclude tag on the entry), so an
\* entry with an included and an excluded tag is shown nowhere.
C5_TagFilter ==
    IsAutoResponse =>
        \A k \in DOMAIN resp.body.sections :
            \A i \in DOMAIN resp.body.sections[k].items :
                PassesTagFilter(resp.body.sections[k].items[i].tags,
                                VariantRow(db, resp.id).rules_json)

\* an entry with an included and an excluded tag, of a type a section of the
\* Document accepts, is not in the Document
C5_Witness ==
    /\ IsAutoResponse
    /\ \E i \in DOMAIN db.entries :
          LET rules == VariantRow(db, resp.id).rules_json
              tags == EntryTagsOf(db, db.entries[i].id)
          IN /\ "include_tags" \in DOMAIN rules /\ "exclude_tags" \in DOMAIN rules
             /\ tags \cap Range(rules.include_tags) # {}
             /\ tags \cap Range(rules.exclude_tags) # {}
             /\ \E k \in DOMAIN resp.body.sections :
                    db.entries[i].type \in AllowedTypes(resp.body.sections[k].id)
             /\ PlacesOf(resp.body, db.entries[i].id) = {}

C7_SectionTypes ==
    /\ DOMAIN section_to_entry_types =
          { "experience", "education", "projects", "publications", "awards",
            "volunteering", "skills", "teaching", "certifications", "languages",
            "talks", "interests", "references" }
    /\ section_to_entry_types["projects"] = {"project", "projects"}
    /\ IsAutoResponse =>
          \A i \in DOMAIN db.entries :
              LET e == db.entries[i]
                  Accepts(sid) == IF sid \in DOMAIN section_to_entry_types
                                  THEN e.type \in section_to_entry_types[sid]
                                  ELSE e.type = sid
              IN PassesTagFilter(EntryTagsOf(db, e.id), VariantRow(db, resp.id).rules_json) =>
                    (PlacesOf(resp.body, e.id) # {} <=>
                        \E k \in DOMAIN resp.body.sections : Accepts(resp.body.sections[k].id))

\* an entry of type project shown under "projects", and the sections declared
C7_Witness ==
    /\ IsAutoResponse /\ HasSectionRows(resp.id)
    /\ \E k \in DOMAIN resp.body.sections :
          /\ resp.body.sections[k].id = "projects"
          /\ \E i \in DOMAIN resp.body.sections[k].items :
                resp.body.sections[k].items[i].entry_type = "project"

\* C8: a variant with no layout and no declared sections gets the 13 default
\* sections in their fixed order.
C8_DefaultSections ==
    (IsAutoResponse /\ ~HasSectionRows(resp.id)) =>
        SectionIdsOf(resp.body) =
            << "experience", "education", "projects", "publications", "awards",
               "volunteering", "skills", "teaching", "certifications", "languages",
               "talks", "interests", "references" >>

\* the default sections, one of them with an entry
C8_Witness ==
    /\ IsAutoResponse /\ ~HasSectionRows(resp.id)
    /\ Len(resp.body.sections) = 13
    /\ resp.body.sections[3].items # <<>>

\* C9: a preview or export returns the Document resolved against the tables
\* as they are at that request, and every item shows what the clients last
\* wrote to its entry: the data and the tags of the last accepted create or
\* update, and no entry an accepted delete removed.
C9_DocumentIsFresh ==
    IsDocResponse =>
        /\ resp.body = build_variant_preview(db, resp.id).value
        /\ \A k \in DOMAIN resp.body.sections :
              \A i \in DOMAIN resp.body.sections[k].items :
                  LET item == resp.body.sections[k].items[i]
                  IN /\ hist.entries[item.entry_id] # <<>>
                     /\ item.data = hist.entries[item.entry_id][1].data
                     /\ item.tags = hist.entries[item.entry_id][1].tags

\* a Document showing an entry whose data and tags an update has replaced
C9_Witness ==
    /\ IsDocResponse
    /\ \E k \in DOMAIN resp.body.sections :
          \E i \in DOMAIN resp.body.sections[k].items :
              /\ resp.body.sections[k].items[i].data = "d2"
              /\ resp.body.sections[k].items[i].tags = {"a", "b"}

\* C10: the session of a request is committed iff the handler returned (the
\* response is 200) and then the file holds what the handler wrote; if the
\* handler raised (404 or 500) the session is rolled back and the file is as
\* before the request; the session is closed either way.
C10_RequestTransaction ==
    [][ /\ txn'.closed
        /\ resp'.status = "200" => (txn'.end = "commit" /\ (txn'.wrote <=> db' # db))
        /\ resp'.status # "200" => (txn'.end = "rollback" /\ db' = db) ]_vars

\* a handler that raised the 404 after it had written to its session
C10_Witness ==
    /\ resp.status = "404"
    /\ txn.wrote
    /\ txn.end = "rollback"

\* the requests of the variants router that name a variant and answer 404
\* for one that does not exist
VariantOps ==
    { "get_variant", "preview_variant", "export_variant_html", "update_variant",
      "get_variant_layout", "set_variant_layout", "clear_variant_layout" }

\* C11: a get, preview, export, update or layout get/set/clear for a variant
\* id that no variant has is answered 404 and leaves the database as it was.
C11_MissingVariant404 ==
    [][ (resp'.op \in VariantOps /\ ~VariantExists(db, resp'.id)) =>
            (resp'.status = "404" /\ db' = db) ]_vars

\* C12: with requests that update an entry at the same time, each with data
\* and tags, the stored entry always is the whole payload of one request, the
\* one committed last: its data together with its tags.
C12_LastWriteWinsWhole ==
    \A i \in DOMAIN db.entries :
        LET e == db.entries[i].id
        IN /\ hist.entries[e] # <<>>
           /\ db.entries[i].data_json = hist.entries[e][1].data
           /\ EntryTagsOf(db, e) = hist.entries[e][1].tags

\* two requests on the same entry that differ in data and in tags: the first
\* is committed and closed, the second holds the lock with its statements
\* executed, and the file still has the whole payload of the first
C12_Witness ==
    \E p, q \in Sessions :
        /\ p # q
        /\ sess.s[p].pc = "closed" /\ sess.s[p].exc = ""
        /\ sess.s[q].pc = "end" /\ sess.s[q].exc = "" /\ sess.lock = q
        /\ sess.s[p].entry_id = sess.s[q].entry_id
        /\ sess.s[p].data # sess.s[q].data
        /\ Range(sess.s[p].tags) # Range(sess.s[q].tags)
        /\ EntryExists(db, sess.s[p].entry_id)
        /\ EntryRow(db, sess.s[p].entry_id).data_json = sess.s[p].data
        /\ EntryTagsOf(db, sess.s[p].entry_id) = Range(sess.s[p].tags)

\* C13: the list of tags holds, in ascending order and once each, exactly
\* the tags of the entries that exist.
C13_TagsOfExistingEntries ==
    resp.op = "list_tags" =>
        /\ \A i, j \in DOMAIN resp.body : i < j => TagRank(resp.body[i]) < TagRank(resp.body[j])
        /\ Range(resp.body) = UNION {EntryTagsOf(db, e) : e \in ExistingIds}

\* C14: a create, whatever its type, data and list of tags, succeeds with a
\* fresh id, and a get of that id gives the type, the data and the set of
\* the tags that were given.
C14_CreateGetRoundTrip ==
    resp.op = "create_entry" =>
        /\ resp.status = "200"
        /\ resp.id = issued.entries
        /\ LET got == EntriesRepo_get(db, resp.id)
           IN /\ got.exc = ""
              /\ got.value = resp.body
              /\ got.value.type = resp.req.type
              /\ got.value.data = resp.req.data
              /\ got.value.tags = Range(resp.req.tags)

C16_DeleteExactlyOne ==
    [][ /\ resp'.op = "delete_entry" =>
            LET NotIt(r) == r.id # resp'.id
            IN /\ EntriesRepo_get(db', resp'.id).exc = "NoResultFound"
               /\ get_entry(db', resp'.id).exc = "HTTPException"
               /\ EntriesRepo_list(db') = SelectSeq(EntriesRepo_list(db), NotIt)
               /\ \A o \in EntryIdInputs \ {resp'.id} :
                     EntriesRepo_get(db', o).value = EntriesRepo_get(db, o).value
               /\ VariantsRepo_list(db') = VariantsRepo_list(db)
        /\ resp'.op = "delete_variant" =>
            LET NotIt(r) == r.id # resp'.id
            IN /\ VariantsRepo_get(db', resp'.id).exc = "NoResultFound"
               /\ get_variant(db', resp'.id).exc = "HTTPException"
               /\ VariantsRepo_list(db') = SelectSeq(VariantsRepo_list(db), NotIt)
               /\ \A o \in VariantIdInputs \ {resp'.id} :
                     VariantsRepo_get(db', o).value = VariantsRepo_get(db, o).value
               /\ EntriesRepo_list(db') = EntriesRepo_list(db) ]_vars

\* an entry that existed is deleted; another entry and a variant are there
C16_Witness ==
    /\ resp.op = "delete_entry" /\ resp.status = "200"
    /\ txn.wrote
    /\ ~EntryExists(db, resp.id)
    /\ Len(db.entries) = 1
    /\ Len(db.variants) >= 1

\* C17: there is at most one profile row; a get of the profile answers {}
\* while no put has happened, and the row is there afterwards; after puts a
\* get, and the put itself, answer the data of the last put.
C17_ProfileSingleton ==
    LET last == IF hist.profile = <<>> THEN "{}" ELSE hist.profile[1]
    IN /\ Cardinality(db.profile) <= 1
       /\ \A r \in db.profile : r.id = 1 /\ r.data_json = last
       /\ resp.op \in {"get_profile", "put_profile"} =>
             /\ resp.status = "200"
             /\ resp.body.data = last
             /\ Cardinality(db.profile) = 1

\* a get of the profile after a put
C17_Witness ==
    /\ resp.op = "get_profile"
    /\ hist.profile = <<"p2">>
    /\ resp.body.data = "p2"
    /\ db.profile = {[id |-> 1, data_json |-> "p2"]}

\* doc is what auto-grouping makes of the tables d for variant v: the stored
\* sections in their order, or the 13 default ones; an entry is shown iff it
\* passes the tag rules and a section accepts its type, and then once, in the
\* first such section
IsAutoGrouped(doc, d, v) ==
    LET rec == VariantsRepo_get(d, v).value
    IN /\ SectionIdsOf(doc) =
            IF rec.sections # <<>> THEN rec.sections
            ELSE << "experience", "education", "projects", "publications", "awards",
                    "volunteering", "skills", "teaching", "certifications", "languages",
                    "talks", "interests", "references" >>
       /\ \A i \in DOMAIN d.entries :
            LET e == d.entries[i]
                accepting == {k \in DOMAIN doc.sections : e.type \in AllowedTypes(doc.sections[k].id)}
                shown == PassesTagFilter(EntryTagsOf(d, e.id), rec.rules) /\ accepting # {}
            IN IF shown
               THEN \E p \in PlacesOf(doc, e.id) :
                       /\ PlacesOf(doc, e.id) = {p}
                       /\ \A k \in accepting : p[1] <= k
               ELSE PlacesOf(doc, e.id) = {}
       /\ \A k \in DOMAIN doc.sections :
            \A i \in DOMAIN doc.sections[k].items :
                EntryExists(d, doc.sections[k].items[i].entry_id)

\* C18: after an accepted clear of a variant's layout the variant reports
\* has_layout false, the layout read back has no sections, and a preview is
\* the auto-grouping of the entries over the variant's stored sections.
C18_ClearLayoutReverts ==
    [][ (resp'.op = "clear_variant_layout" /\ resp'.status = "200") =>
          LET v == resp'.id
          IN /\ get_variant(db', v).value.has_layout = FALSE
             /\ get_variant_layout(db', v).value.sections = <<>>
             /\ preview_variant(db', v).exc = ""
             /\ IsAutoGrouped(preview_variant(db', v).value, db', v) ]_vars

\* a clear that removed layout rows, of a variant whose preview then shows an
\* entry
C18_Witness ==
    /\ resp.op = "clear_variant_layout" /\ resp.status = "200"
    /\ txn.wrote
    /\ ~HasLayoutRows(resp.id)
    /\ \E k \in DOMAIN preview_variant(db, resp.id).value.sections :
          preview_variant(db, resp.id).value.sections[k].items # <<>>

\* C19: the type of every stored entry is one of the 11 entry types.
C19_EntryTypeEnumerated ==
    \A i \in DOMAIN db.entries : db.entries[i].type \in Range(ENTRY_TYPES)

\* an entry of a type with a normalizer has been normalized
IsNormalized == norm.out # <<>> /\ norm.type \in DOMAIN NORMALIZERS

\* the alias list of a canonical string field of the normalized type
AliasesOf(f) == NORMALIZERS[norm.type].str[f]

\* <<the value>> of the first key of the field's alias list that the data
\* holds with a non-null value, <<>> when it holds none
FirstNonNull(f) ==
    LET present == { i \in DOMAIN AliasesOf(f) :
                        /\ AliasesOf(f)[i] \in DOMAIN norm.data
                        /\ norm.data[AliasesOf(f)[i]] # PyNone }
    IN  IF present = {} THEN <<>>
        ELSE << norm.data[AliasesOf(f)[CHOOSE i \in present : \A j \in present : i <= j]] >>

\* the fields of the type's schema, and _dates where it has a start and an end
CanonicalKeySet ==
    LET schema == SCHEMA_REGISTRY[norm.type]
    IN  schema.str \cup schema.list
          \cup (IF { "start_date", "end_date" } \subseteq schema.str
                THEN { "_dates" } ELSE {})

\* the dict returned has exactly the canonical keys, and each string field's
\* alias list starts with the canonical name
CanonicalKeysFirst ==
    /\ DOMAIN norm.out[1] = CanonicalKeySet
    /\ DOMAIN NORMALIZERS[norm.type].str = SCHEMA_REGISTRY[norm.type].str
    /\ \A f \in SCHEMA_REGISTRY[norm.type].str : Head(AliasesOf(f)) = f
    /\ norm.type = "experience" =>
          AliasesOf("role") = << "role", "title", "position", "header" >>

\* what Python's str() makes of a value of the data
TextOf(val) ==
    CASE val.t = "str" -> val.s
      [] val = PyInt(7) -> "7"
      [] val = PyList(<< PyString("x"), PyString("") >>) -> "['x', '']"

\* C20 as stated: each normalizer returns exactly its canonical key set, and
\* every canonical string field equals the value of the first key of its
\* alias list (canonical name first) that the data holds with a non-null
\* value, or "" when there is none.
C20_AliasValue ==
    IsNormalized =>
       /\ CanonicalKeysFirst
       /\ \A f \in SCHEMA_REGISTRY[norm.type].str :
            IF FirstNonNull(f) = <<>>
            THEN norm.out[1][f] = ""
            ELSE FirstNonNull(f)[1] = PyString(norm.out[1][f])

\* C20, amended: each normalizer returns exactly its canonical key set, and
\* every canonical string field equals the value of the first key of its
\* alias list (canonical name first) that the data holds with a non-null
\* value, converted with str() when that value is not a string, or "" when
\* there is none.
C20_AliasValueAsText ==
    IsNormalized =>
       /\ CanonicalKeysFirst
       /\ \A f \in SCHEMA_REGISTRY[norm.type].str :
            IF FirstNonNull(f) = <<>>
            THEN norm.out[1][f] = ""
            ELSE norm.out[1][f] = TextOf(FirstNonNull(f)[1])

\* an experience without the key role, whose legacy keys title and header
\* hold strings: title, the earlier alias, supplies the role
C20_Witness ==
    /\ IsNormalized
    /\ norm.type = "experience"
    /\ norm.data = [title |-> PyString("x"), header |-> PyString("y")]
    /\ norm.out[1].role = "x"

\* the text of the first of the keys that the data holds with a non-null
\* value, "" when it holds none
FirstTextOf(keys) ==
    LET present == { i \in DOMAIN keys :
                        /\ keys[i] \in DOMAIN norm.data
                        /\ norm.data[keys[i]] # PyNone }
    IN  IF present = {} THEN ""
        ELSE TextOf(norm.data[keys[CHOOSE i \in present : \A j \in present : i <= j]])

\* C21: where a normalizer returns start_date, end_date and _dates, _dates is
\* "start_date - end_date" when both returned values are non-empty,
\* "start_date - Present" when only start_date is, end_date when only
\* end_date is, and else the first present of dates, date, year, or "".
C21_DatesFromStartEnd ==
    (IsNormalized /\ { "start_date", "end_date", "_dates" } \subseteq DOMAIN norm.out[1]) =>
       LET out == norm.out[1]
       IN  out._dates =
              IF out.start_date # "" /\ out.end_date # ""
              THEN out.start_date \o " - " \o out.end_date
              ELSE IF out.start_date # "" THEN out.start_date \o " - Present"
              ELSE IF out.end_date # "" THEN out.end_date
              ELSE FirstTextOf(<< "dates", "date", "year" >>)

\* an entry of a type without a normalizer has been normalized
IsGeneric == norm.out # <<>> /\ norm.type \notin DOMAIN NORMALIZERS

\* C22: for a type without a normalizer, normalize_entry returns title,
\* organization, dates and highlights computed from their aliases, highlights
\* a list of strings also when the data gives a comma-separated string, and
\* every other key of the data with its value unchanged.
C22_GenericNormalizer ==
    IsGeneric =>
       LET out == norm.out[1]
           data == norm.data
           computed == { "title", "organization", "dates", "highlights" }
           highlights == _get_list(data, << "highlights", "bullets" >>)
       IN  /\ DOMAIN out = computed \cup DOMAIN data
           /\ out.title = PyString(FirstTextOf(<< "title", "name", "header" >>))
           /\ out.organization =
                 PyString(FirstTextOf(<< "organization", "org", "company",
                                         "subheader" >>))
           /\ out.dates = PyString(_build_dates(data))
           /\ out.highlights =
                 PyList([k \in DOMAIN highlights |-> PyString(highlights[k])])
           /\ (\E k \in { "highlights", "bullets" } :
                  /\ k \in DOMAIN data
                  /\ data[k] = PyString("x, y")
                  /\ DOMAIN data \cap { "highlights", "bullets" } = {k})
                 => out.highlights = PyList(<< PyString("x"), PyString("y") >>)
           /\ \A k \in DOMAIN data \ computed : out[k] = data[k]

\* a layout as the dict it is: its keys, each with its list of entry ids
LayoutDict(layout) ==
    { << layout[i].section, layout[i].entry_ids >> : i \in DOMAIN layout }

\* C25: after an accepted set_layout(v, L), get_layout(v) returns L, the same
\* keys each with the same sequence of entry ids, also for a key whose list
\* is empty and for an id listed twice; it is what set_layout returned.
C25_LayoutRoundTrip ==
    [][ (resp'.op = "set_variant_layout" /\ resp'.status = "200") =>
          LET v == resp'.id
              L == hist'.layout[v][1]
          IN  /\ LayoutDict(VariantsRepo_get_layout(db', v)) = LayoutDict(L)
              /\ LayoutDict(get_variant_layout(db', v).value.sections)
                    = LayoutDict(resp'.body) ]_vars

\* C26: an accepted set_layout(v, L) followed at once by clear_layout(v)
\* leaves the variant's sections list as it was before the set_layout, and
\* with it the preview of a variant that had no layout.
C26_SetThenClearNoOp ==
    [][ (resp'.op = "set_variant_layout" /\ resp'.status = "200") =>
          LET v == resp'.id
              cleared == clear_variant_layout(db', v)
          IN  /\ cleared.exc = ""
              /\ get_variant(cleared.db, v).value.sections
                    = get_variant(db, v).value.sections
              /\ ~HasLayoutRows(v) =>
                    preview_variant(cleared.db, v).value
                       = preview_variant(db, v).value ]_vars

\* C27: every entry_tags row and every variant_items row names an existing
\* entry, and every variant_sections row and every variant_items row names
\* an existing variant; so a delete has taken the rows of its entry or
\* variant with it.
C27_ReferentialIntegrity ==
    /\ \A r \in db.entry_tags : EntryExists(db, r.entry_id)
    /\ \A r \in db.variant_items :
          EntryExists(db, r.entry_id) /\ VariantExists(db, r.variant_id)
    /\ \A r \in db.variant_sections : VariantExists(db, r.variant_id)

\* C29: after an accepted update of an entry that gives data or tags, list()
\* returns that entry first; after an accepted update of a variant, or a set
\* or clear of its layout, that changes the tables, list() returns that
\* variant first.
C29_ModifiedFirst ==
    [][ /\ (/\ resp'.op = "update_entry" /\ resp'.status = "200"
            /\ (resp'.req.data # <<>> \/ resp'.req.tags # <<>>))
              => EntriesRepo_list(db')[1].id = resp'.id
        /\ (/\ resp'.op \in { "update_variant", "set_variant_layout",
                              "clear_variant_layout" }
            /\ resp'.status = "200"
            /\ db' # db)
              => VariantsRepo_list(db')[1].id = resp'.id ]_vars

\* C30: every stored variant has a name of length at least 1.
C30_VariantNameNonEmpty ==
    \A i \in DOMAIN db.variants : db.variants[i].name # ""

\* C28: with requests on the profile served at the same time, from a file
\* without a profile row on, no request fails on the row id 1 that another
\* request created first, and every request answered 200 leaves exactly one
\* profile row.
C28_FirstUseConcurrent ==
    /\ \A p \in Sessions : sess.s[p].exc # "IntegrityError"
    /\ (resp.op \in { "get_profile", "put_profile" } /\ resp.status = "200") =>
          Cardinality(db.profile) = 1

\* a text has been escaped
IsEscaped == norm.out # <<>> /\ norm.fn = "escape"

\* the escape sequence of a character
EscapeOf(ch) ==
    CASE ch = "\\" -> << "\\", "textbackslash", "{", "}" >>
      [] ch = "~" -> << "\\", "textasciitilde", "{", "}" >>
      [] ch = "^" -> << "\\", "textasciicircum", "{", "}" >>
      [] ch \in { "{", "}", "$", "#", "%", "&", "_" } -> << "\\", ch >>
      [] OTHER -> << ch >>

\* C23: _tex_escape and _escape_latex both return the concatenation of the
\* escapes of the characters of the text, each of the ten special characters
\* giving its escape sequence and any other character itself; so they agree.
C23_NoDoubleEscape ==
    IsEscaped =>
       LET expected == Concat([i \in DOMAIN norm.text |-> EscapeOf(norm.text[i])])
       IN  /\ norm.out[1].tex = expected
           /\ norm.out[1].md = expected
           /\ norm.out[1].tex = norm.out[1].md

\* a Document has been rendered for LinkedIn
IsRendered == norm.out # <<>> /\ norm.fn = "linkedin"

\* the items of the Document, section after section
ItemsInOrder ==
    Concat([s \in DOMAIN norm.doc.sections |-> norm.doc.sections[s].items])

\* the data holds none of the keys, or holds them with null or blank values
NoneOrBlank(data, keys) ==
    \A k \in keys \cap DOMAIN data :
        data[k] = PyNone \/ (data[k].t = "str" /\ data[k].s \in { "", " " })

\* C24: the rows are one per item of the Document, in section order and then
\* item order; the row of an item whose data has none of title, role,
\* position, name, or only blank ones, has the entry type as its title, and
\* a field the data does not give is the empty string.
C24_LinkedinRows ==
    IsRendered =>
       LET rows == norm.out[1]
           items == ItemsInOrder
       IN  /\ Len(rows) = Len(items)
           /\ \A k \in DOMAIN items :
                LET data == items[k].data
                IN  /\ rows[k].entry_type = items[k].entry_type
                    /\ rows[k].tags = (IF items[k].tags = <<>> THEN "" ELSE "a,b")
                    /\ NoneOrBlank(data, { "title", "role", "position", "name" })
                          => rows[k].title = items[k].entry_type
                    /\ ("title" \in DOMAIN data /\ data.title = PyString("x"))
                          => rows[k].title = "x"
                    /\ NoneOrBlank(data, { "company", "org", "organization" })
                          => rows[k].company = ""
                    /\ NoneOrBlank(data, { "location" }) => rows[k].location = ""
                    /\ NoneOrBlank(data, { "start_date", "start" })
                          => rows[k].start_date = ""
                    /\ NoneOrBlank(data, { "end_date", "end" }) => rows[k].end_date = ""
                    /\ "highlights" \notin DOMAIN data => rows[k].description = ""

\* a Document of two sections with one item each: a skill whose title is
\* blank, then an experience with a title; the rows come in that order and
\* the first has its type as title
C24_Witness ==
    /\ IsRendered
    /\ Len(norm.doc.sections) = 2
    /\ Len(norm.doc.sections[1].items) = 1
    /\ Len(norm.doc.sections[2].items) = 1
    /\ norm.doc.sections[1].items[1].entry_type = "skill"
    /\ norm.doc.sections[1].items[1].data = [title |-> PyString(" ")]
    /\ norm.doc.sections[2].items[1].entry_type = "experience"
    /\ norm.doc.sections[2].items[1].data = [title |-> PyString("x")]
    /\ norm.out[1][1].title = "skill"
    /\ norm.out[1][2].title = "x"

====
